---- MODULE Spec2Model ----
(***************************************************************************)
(* Model of the URL de-duplication / QR pipeline of qr-code-generator.     *)
(*                                                                         *)
(*   Spec      the URLManager registry          (src/url_manager.py)       *)
(*   SpecMain  repeated main.py process_file runs against the master CSV   *)
(*             (src/main.py, src/csv_manager.py, src/url_processor.py)     *)
(*   SpecNorm  URLProcessor.normalize_url as a pure function               *)
(*             (src/url_processor.py)                                      *)
(*   SpecEnc   the encoder's choice of version  (src/qr_generator.py)      *)
(*   SpecGen   QRGenerator.generate for URLs    (src/qr_generator.py)      *)
(*   SpecPdf   the four-per-page layouts        (src/pdf_generator.py)     *)
(*   SpecBatch directory runs                   (src/batch_processor.py)   *)
(*   SpecExt   URL extraction from documents    (src/url_extractor.py)     *)
(*   SpecLabel the URL label of create_pdf                                 *)
(*   SpecDedup URLProcessor.deduplicate_urls    (src/url_processor.py)     *)
(*   SpecSan   per-link output directories                                 *)
(*             (src/link_extractor_qr_generator.py)                        *)
(*   SpecCsvp  CSVProcessor  (src/improved_qr_code_generator.py)           *)
(*   SpecApp   process_file of improved_qr_code_generator.py               *)
(*   SpecSide  the binary sidecar files                                    *)
(*                                                                         *)
(* Text is modelled character by character: a string is a sequence of      *)
(* one-character strings, so that parsing, lower-casing, prefix tests and  *)
(* CSV quoting are computed and not assumed.                               *)
(***************************************************************************)
EXTENDS Integers, Sequences, FiniteSets, TLC

VARIABLES
    \* ---- URLManager (src/url_manager.py) ----
    urls,         \* self.urls: insertion-ordered dict, a sequence of metadata records
    url_hashes,   \* self.url_hashes
    nextId,       \* source of fresh uuid4 values
    clock,        \* datetime.now()
    op,           \* the last call made on the registry and its arguments
    ret,          \* what that call returned
    pre,          \* self.urls as it was when that call began
    firstAdded,   \* the URLs in the order add_url first created them
    dupAdds,      \* the URLs add_url was called with while already registered
    csvFile,      \* the text of urls.csv as last written by export_to_csv
    \* ---- main.py pipeline ----
    masterCsv,    \* data rows of master_urls.csv
    runs,         \* number of process_file runs so far
    result,       \* the dict returned by the last process_file
    qrLog,        \* url -> version the encoder selected when it encoded url
    mainEnv,      \* the last run: whether the CSV could be read and written, the
                  \* URLs that were encoded, and whether any run met a failure
    \* ---- normalize_url as a function ----
    uc,           \* components of the first URL
    vc,           \* components of the second URL, a variation of the first
    edits,        \* the kinds of variation applied to obtain vc from uc
    nEdits,       \* how many variations were applied
    applied,      \* TRUE once normalize_url was applied to both
    ku,           \* normalize_url(first URL)
    kv,           \* normalize_url(second URL)
    \* ---- the QR encoder (src/qr_generator.py, src/generate-qr-code.py) ----
    generator,    \* the QRGenerator object: error_correction, box_size, border
    lastQr,       \* the qrcode.QRCode object of the most recent call
    genLog,       \* the generate calls made on the object and what they returned
    chunks,       \* the payload, as the chunks qr.add_data makes of it
    encOp,        \* the encoder entry point that was called
    encOut,       \* what the caller of that entry point observed
    \* ---- report layout (src/pdf_generator.py and the create_* variants) ----
    entries,      \* the records handed to the layout operation, in input order
    pdfOp,        \* the layout operation that was called
    pdfOut,       \* what it returned, what it placed and what it left on disk
    \* ---- batch_processor.py process_directory ----
    batchFiles,   \* files_to_process: what get_files_to_process returned
    maxWorkers,   \* config['max_workers']
    tasks,        \* per file: the state of its process_file task
    batchResults, \* results, as the main thread appends to it
    batchPc,      \* where process_directory is
    batchOut,     \* the dict process_directory returns and the summary report
    \* ---- text extraction (src/url_extractor.py, LinkExtractor) ----
    doc,          \* the document: its extension, whether it opens, its bytes
    extOp,        \* the extraction entry point that was called
    extOut,       \* what it returned
    \* ---- the label of a QR image (PDFGenerator.create_pdf) ----
    labelUrl,     \* data['url']
    labelOut,     \* display_url, the text of the cell above the image
    \* ---- the binary sidecar file of a QR code ----
    sideIn,       \* the URL and the generator's configuration
    sideOp,       \* the operation that wrote the sidecar
    sideOut,      \* the bytes of <name>.bin and what was stored for the URL
    \* ---- URLProcessor.deduplicate_urls as a function ----
    dedupIn,      \* the set of URLs, in the order the loop iterates it
    dedupOut,     \* the list returned
    \* ---- improved_qr_code_generator.py process_file ----
    appIn,        \* the links extracted from input_file
    appPc,        \* where process_file is
    appLoop,      \* unprocessed_urls, the position of the loop in it, and the
                  \* URLs a QR code was generated for so far
    appOut,       \* what was true of the registry when the loop began
    \* ---- LinkProcessorApp.sanitize_filename ----
    sanIn,        \* the URLs found in one file
    sanOut,       \* per URL, the directory its sidecars are written to
    \* ---- CSVProcessor (src/improved_qr_code_generator.py) ----
    csvpFile,     \* the lines of the CSV file, None while it does not exist
    csvpUrls,     \* self.urls, the URLs the object tracks
    csvpClock,    \* datetime.now() as add_urls reads it
    csvpOp,       \* the last call made on the CSVProcessor and its arguments
    csvpPre       \* the file as it was when that call began

regVars  == <<urls, url_hashes, nextId, clock, op, ret, pre, firstAdded, dupAdds, csvFile>>
mainVars == <<masterCsv, runs, result, qrLog, mainEnv>>
normVars == <<uc, vc, edits, nEdits, applied, ku, kv>>
encVars  == <<generator, lastQr, genLog, chunks, encOp, encOut>>
pdfVars  == <<entries, pdfOp, pdfOut>>
batchVars == <<batchFiles, maxWorkers, tasks, batchResults, batchPc, batchOut>>
extVars  == <<doc, extOp, extOut>>
firstVars == <<regVars, mainVars, normVars>>
laterVars == <<encVars, pdfVars, batchVars, extVars>>
labelVars == <<labelUrl, labelOut>>
sideVars  == <<sideIn, sideOp, sideOut>>
dedupVars == <<dedupIn, dedupOut>>
appVars   == <<appIn, appPc, appLoop, appOut>>
sanVars   == <<sanIn, sanOut>>
csvpVars  == <<csvpFile, csvpUrls, csvpClock, csvpOp, csvpPre>>
thirdVars == <<labelVars, sideVars, dedupVars, appVars, sanVars, csvpVars>>
vars     == <<regVars, mainVars, normVars, laterVars, thirdVars>>

(***************************************************************************)
(* Bounds                                                                  *)
(***************************************************************************)
MaxClock == 2      \* mark_as_processed calls per behaviour
MaxRuns  == 2      \* process_file runs per behaviour
MaxEdits == 2      \* variations applied to a URL before normalizing
MaxBytes == 2954   \* characters of a payload handed to the encoder
MaxCalls == 3      \* generate calls on one QRGenerator object
MaxEntries == 5    \* records handed to a layout operation
MaxWorkers == 2    \* config['max_workers'] of a batch

(***************************************************************************)
(* Characters and strings                                                  *)
(***************************************************************************)
\* Python values of mixed type (None, int, str) held in a dict or a CSV cell
None     == [none |-> TRUE]
PyInt(n) == [int |-> n]
PyStr(t) == [str |-> t]
IsNone(v) == "none" \in DOMAIN v
IsInt(v)  == "int" \in DOMAIN v

UpperLetters == <<"A","B","C","D","E","F","G","H","I","J","K","L","M",
                  "N","O","P","Q","R","S","T","U","V","W","X","Y","Z">>
LowerLetters == <<"a","b","c","d","e","f","g","h","i","j","k","l","m",
                  "n","o","p","q","r","s","t","u","v","w","x","y","z">>
Digits       == <<"0","1","2","3","4","5","6","7","8","9">>

Range(s) == {s[i] : i \in DOMAIN s}

Min(S) == CHOOSE x \in S : \A y \in S : x <= y
Max(S) == CHOOSE x \in S : \A y \in S : x >= y

\* str.lower() / str.upper() on one character
LowerChar(c) ==
    IF \E i \in 1..26 : UpperLetters[i] = c
    THEN LowerLetters[CHOOSE i \in 1..26 : UpperLetters[i] = c]
    ELSE c
UpperChar(c) ==
    IF \E i \in 1..26 : LowerLetters[i] = c
    THEN UpperLetters[CHOOSE i \in 1..26 : LowerLetters[i] = c]
    ELSE c
Lower(s) == [i \in 1..Len(s) |-> LowerChar(s[i])]
Upper(s) == [i \in 1..Len(s) |-> UpperChar(s[i])]

\* s.find(c, from): first position >= from holding c, 0 when there is none
Find(s, c, from) ==
    LET I == {i \in from..Len(s) : s[i] = c}
    IN  IF I = {} THEN 0 ELSE Min(I)
\* s.rfind(c)
RFind(s, c) ==
    LET I == {i \in 1..Len(s) : s[i] = c}
    IN  IF I = {} THEN 0 ELSE Max(I)
Contains(s, c) == \E i \in 1..Len(s) : s[i] = c
\* s[a..b] with 1-based inclusive positions, empty when a > b
Slice(s, a, b) == IF a > b THEN <<>> ELSE SubSeq(s, a, b)
From(s, a) == Slice(s, a, Len(s))
StartsWith(s, p) == Len(s) >= Len(p) /\ SubSeq(s, 1, Len(p)) = p

\* str(n) for a natural number
RECURSIVE IntToStr(_)
IntToStr(n) == IF n < 10 THEN <<Digits[n + 1]>>
               ELSE IntToStr(n \div 10) \o <<Digits[(n % 10) + 1]>>

(***************************************************************************)
(* urllib.parse.urlparse / urlunparse as url_processor.py calls them       *)
(***************************************************************************)
SchemeChars == Range(UpperLetters) \cup Range(LowerLetters) \cup Range(Digits)
                 \cup {"+", "-", "."}
s_http  == <<"h","t","t","p">>
s_https == <<"h","t","t","p","s">>
\* the schemes of urllib's uses_netloc / uses_params that URLs of this program carry
uses_netloc == {s_http, s_https}
uses_params == {s_http, s_https, <<>>}

\* urlsplit, step 1: the scheme is the text before the first ':' when that
\* text is made of scheme characters; it is returned lower-cased with the rest
SplitScheme(url, i) ==
    IF /\ i > 1
       /\ url[1] \in Range(UpperLetters) \cup Range(LowerLetters)
       /\ \A j \in 1..(i - 1) : url[j] \in SchemeChars
    THEN <<Lower(Slice(url, 1, i - 1)), From(url, i + 1)>>
    ELSE <<<<>>, url>>

\* _splitnetloc: the netloc runs from after '//' to the first of '/', '?', '#'
NetlocEnd(rest) ==
    LET delims == {d \in {Find(rest, "/", 3), Find(rest, "?", 3), Find(rest, "#", 3)} : d > 0}
    IN  IF delims = {} THEN Len(rest) + 1 ELSE Min(delims)
SplitNetloc(rest, delim) ==
    IF StartsWith(rest, <<"/","/">>)
    THEN <<Slice(rest, 3, delim - 1), From(rest, delim)>>
    ELSE <<<<>>, rest>>

\* s.split(c, 1): the text before the first c and the text after it
Cut(t, k)   == IF k > 0 THEN <<Slice(t, 1, k - 1), From(t, k + 1)>> ELSE <<t, <<>>>>
CutAt(t, c) == Cut(t, Find(t, c, 1))

\* ok = FALSE stands for the ValueError raised on an unbalanced '[' or ']'
NetlocOk(netloc) == Contains(netloc, "[") <=> Contains(netloc, "]")
SplitResult(scheme, netloc, pq, fragment) ==
    [ok |-> NetlocOk(netloc), scheme |-> scheme, netloc |-> netloc,
     path |-> pq[1], query |-> pq[2], fragment |-> fragment]

\* urlsplit, steps 2 to 4: netloc, then fragment after '#', then query after '?'
urlsplit_query(scheme, netloc, fq) == SplitResult(scheme, netloc, CutAt(fq[1], "?"), fq[2])
urlsplit_fragment(scheme, nr)      == urlsplit_query(scheme, nr[1], CutAt(nr[2], "#"))
urlsplit_netloc(sr) == urlsplit_fragment(sr[1], SplitNetloc(sr[2], NetlocEnd(sr[2])))
urlsplit(url)       == urlsplit_netloc(SplitScheme(url, Find(url, ":", 1)))

\* _splitparams: the ';' parameters of the last path segment
ParamsStart(path, slash) ==
    IF slash > 0 THEN Find(path, ";", slash) ELSE Find(path, ";", 1)
SplitParamsAt(path, i) ==
    IF i = 0 THEN <<path, <<>>>> ELSE <<Slice(path, 1, i - 1), From(path, i + 1)>>
splitparams(path) == SplitParamsAt(path, ParamsStart(path, RFind(path, "/")))

PathParams(scheme, path) ==
    IF scheme \in uses_params /\ Contains(path, ";") THEN splitparams(path)
    ELSE <<path, <<>>>>
ParseResult(sp, pp) ==
    [ok |-> sp.ok, scheme |-> sp.scheme, netloc |-> sp.netloc,
     path |-> pp[1], params |-> pp[2], query |-> sp.query, fragment |-> sp.fragment]
urlparse_split(sp) == ParseResult(sp, PathParams(sp.scheme, sp.path))
urlparse(url)      == urlparse_split(urlsplit(url))

\* urlunparse: path;params, then //netloc, scheme:, ?query and #fragment
JoinParams(path, params) ==
    IF params # <<>> THEN path \o <<";">> \o params ELSE path
JoinNetloc(scheme, netloc, u) ==
    IF netloc # <<>>
       \/ (scheme # <<>> /\ scheme \in uses_netloc /\ ~StartsWith(u, <<"/","/">>))
    THEN <<"/","/">> \o netloc \o (IF u # <<>> /\ u[1] # "/" THEN <<"/">> \o u ELSE u)
    ELSE u
JoinScheme(scheme, u)     == IF scheme # <<>> THEN scheme \o <<":">> \o u ELSE u
JoinQuery(u, query)       == IF query # <<>> THEN u \o <<"?">> \o query ELSE u
JoinFragment(u, fragment) == IF fragment # <<>> THEN u \o <<"#">> \o fragment ELSE u
urlunparse(scheme, netloc, path, params, query, fragment) ==
    JoinFragment(
        JoinQuery(JoinScheme(scheme, JoinNetloc(scheme, netloc, JoinParams(path, params))),
                  query),
        fragment)

(***************************************************************************)
(* URLProcessor (src/url_processor.py)                                     *)
(***************************************************************************)
www_dot == <<"w","w","w",".">>

\* netloc[4:] when netloc.startswith('www.')
strip_www(netloc) == IF StartsWith(netloc, www_dot) THEN From(netloc, 5) ELSE netloc

\* the body of the try block, and the except branch when urlparse raised
normalize_parsed(url, parsed) ==
    IF ~parsed.ok THEN url
    ELSE urlunparse(Lower(parsed.scheme), strip_www(Lower(parsed.netloc)),
                    parsed.path, parsed.params, parsed.query, <<>>)

\* normalize_url as it would be if it lower-cased the whole URL
normalize_parsed_lower_all(url, parsed) ==
    IF ~parsed.ok THEN url
    ELSE urlunparse(Lower(parsed.scheme), strip_www(Lower(parsed.netloc)),
                    Lower(parsed.path), Lower(parsed.params), Lower(parsed.query), <<>>)
normalize_url_lower_all(url) == normalize_parsed_lower_all(url, urlparse(url))

normalize_url(url) == normalize_parsed(url, urlparse(url))

(***************************************************************************)
(* The URLs the registry and the pipeline are exercised with               *)
(***************************************************************************)
U1 == <<"h","t","t","p",":","/","/","e","x",".","c","o","m","/","a">>   \* http://ex.com/a
U2 == <<"h","t","t","p",":","/","/","W","W","W",".","e","x",".","c","o","m","/","a">>   \* http://WWW.ex.com/a
U3 == <<"h","t","t","p",":","/","/","e","x",".","c","o","m","/","b",",","c">>   \* http://ex.com/b,c
URLs == {U1, U2, U3}

\* What the encoder hands to mark_as_processed: a version and a module string
QRSamples == { [version |-> 1, qr_data |-> <<"1","0">>],
               [version |-> 2, qr_data |-> <<"0","1","1">>] }

(***************************************************************************)
(* csv.writer / csv.DictReader / csv.DictWriter (excel dialect)            *)
(***************************************************************************)
\* str() of a cell as csv.writer renders it: None is the empty string
CsvStr(v) == IF IsNone(v) THEN <<>>
             ELSE IF IsInt(v) THEN IntToStr(v.int)
             ELSE v.str

NeedsQuote(f) == \E i \in 1..Len(f) : f[i] \in {",", "\"", "\r", "\n"}
RECURSIVE DoubleQuotes(_)
DoubleQuotes(f) ==
    IF f = <<>> THEN <<>>
    ELSE (IF Head(f) = "\"" THEN <<"\"", "\"">> ELSE <<Head(f)>>) \o DoubleQuotes(Tail(f))
\* QUOTE_MINIMAL
CsvQuote(f) == IF NeedsQuote(f) THEN <<"\"">> \o DoubleQuotes(f) \o <<"\"">> ELSE f

RECURSIVE JoinFields(_)
JoinFields(fs) ==
    IF Len(fs) = 0 THEN <<>>
    ELSE IF Len(fs) = 1 THEN fs[1]
    ELSE fs[1] \o <<",">> \o JoinFields(Tail(fs))
\* writer.writerow(cells): one line of the file, its terminator left out
writerow(cells) ==
    IF Len(cells) = 1 /\ CsvStr(cells[1]) = <<>> THEN <<"\"", "\"">>
    ELSE JoinFields([i \in 1..Len(cells) |-> CsvQuote(CsvStr(cells[i]))])

\* csv.reader on one line: the parser's states are start of field, inside an
\* unquoted field, inside a quoted field, and after a quote in a quoted field
RECURSIVE ParseFrom(_, _, _, _, _)
ParseFrom(line, i, st, cur, fields) ==
    IF i > Len(line) THEN Append(fields, cur)
    ELSE LET c == line[i] IN
         CASE st = "start" ->
                IF c = "\"" THEN ParseFrom(line, i + 1, "quoted", cur, fields)
                ELSE IF c = "," THEN ParseFrom(line, i + 1, "start", <<>>, Append(fields, cur))
                ELSE ParseFrom(line, i + 1, "plain", Append(cur, c), fields)
           [] st = "plain" ->
                IF c = "," THEN ParseFrom(line, i + 1, "start", <<>>, Append(fields, cur))
                ELSE ParseFrom(line, i + 1, "plain", Append(cur, c), fields)
           [] st = "quoted" ->
                IF c = "\"" THEN ParseFrom(line, i + 1, "endquote", cur, fields)
                ELSE ParseFrom(line, i + 1, "quoted", Append(cur, c), fields)
           [] OTHER ->
                IF c = "\"" THEN ParseFrom(line, i + 1, "quoted", Append(cur, c), fields)
                ELSE IF c = "," THEN ParseFrom(line, i + 1, "start", <<>>, Append(fields, cur))
                ELSE ParseFrom(line, i + 1, "plain", Append(cur, c), fields)
readrow(line) == IF line = <<>> THEN <<>> ELSE ParseFrom(line, 1, "start", <<>>, <<>>)

h_url         == <<"u","r","l">>
h_timestamp   == <<"t","i","m","e","s","t","a","m","p">>
h_version     == <<"v","e","r","s","i","o","n">>
h_binary_data == <<"b","i","n","a","r","y","_","d","a","t","a">>
fieldnames    == <<h_url, h_timestamp, h_version, h_binary_data>>

\* csv.DictReader: the first row names the columns; an empty row is skipped; a
\* row's surplus cells go under the key None, missing cells read as None
DictRow(names, row) ==
    LET keys  == {names[i] : i \in 1..Min({Len(names), Len(row)})}
        named == [k \in {PyStr(n) : n \in Range(names)} |->
                    IF k.str \in keys
                    THEN PyStr(row[Max({i \in 1..Len(row) : i <= Len(names) /\ names[i] = k.str})])
                    ELSE None]
    IN  IF Len(row) > Len(names)
        THEN [k \in DOMAIN named \cup {None} |->
                 IF k = None THEN [list |-> From(row, Len(names) + 1)] ELSE named[k]]
        ELSE named
DictReader(lines) ==
    IF Len(lines) = 0 THEN <<>>
    ELSE LET names == readrow(lines[1])
             body  == SelectSeq(Tail(lines), LAMBDA l : readrow(l) # <<>>)
         IN  [i \in 1..Len(body) |-> DictRow(names, readrow(body[i]))]

\* csv.DictWriter(f, fieldnames): writeheader, then writerows; a row with a
\* key outside fieldnames raises ValueError
DictWriter(names, rows) ==
    IF \E i \in 1..Len(rows) : ~(DOMAIN rows[i] \subseteq {PyStr(n) : n \in Range(names)})
    THEN <<<<"ValueError">>>>
    ELSE <<writerow([j \in 1..Len(names) |-> PyStr(names[j])])>> \o
         [i \in 1..Len(rows) |->
             writerow([j \in 1..Len(names) |->
                 IF PyStr(names[j]) \in DOMAIN rows[i] THEN rows[i][PyStr(names[j])]
                 ELSE PyStr(<<>>)])]


(***************************************************************************)
(* Each specification leaves the state of the other two at rest            *)
(***************************************************************************)
RegIdle ==
    /\ urls = <<>>
    /\ url_hashes = {}
    /\ nextId = 1
    /\ clock = 0
    /\ op = [name |-> "init"]
    /\ ret = None
    /\ pre = <<>>
    /\ firstAdded = <<>>
    /\ dupAdds = {}
    /\ csvFile = None
MainIdle ==
    /\ masterCsv = <<>>
    /\ runs = 0
    /\ result = None
    /\ qrLog = <<>>
    /\ mainEnv = None
NormIdle ==
    /\ uc = None
    /\ vc = None
    /\ edits = {}
    /\ nEdits = 0
    /\ applied = FALSE
    /\ ku = <<>>
    /\ kv = <<>>
EncIdle ==
    /\ generator = None
    /\ lastQr = None
    /\ genLog = <<>>
    /\ chunks = <<>>
    /\ encOp = None
    /\ encOut = None
PdfIdle ==
    /\ entries = <<>>
    /\ pdfOp = None
    /\ pdfOut = None
BatchIdle ==
    /\ batchFiles = <<>>
    /\ maxWorkers = 0
    /\ tasks = <<>>
    /\ batchResults = <<>>
    /\ batchPc = "idle"
    /\ batchOut = None
ExtIdle ==
    /\ doc = None
    /\ extOp = None
    /\ extOut = None
LabelIdle == labelUrl = None /\ labelOut = None
SideIdle  == sideIn = None /\ sideOp = None /\ sideOut = None
DedupIdle == dedupIn = None /\ dedupOut = None
AppIdle   == appIn = None /\ appPc = "idle" /\ appLoop = None /\ appOut = None
SanIdle   == sanIn = None /\ sanOut = None
CsvpIdle  == csvpFile = None /\ csvpUrls = {} /\ csvpClock = 0 /\ csvpOp = None /\ csvpPre = None
FirstIdle == RegIdle /\ MainIdle /\ NormIdle
LaterIdle == EncIdle /\ PdfIdle /\ BatchIdle /\ ExtIdle
ThirdIdle == LabelIdle /\ SideIdle /\ DedupIdle /\ AppIdle /\ SanIdle /\ CsvpIdle

(***************************************************************************)
(* URLManager (src/url_manager.py)                                         *)
(***************************************************************************)
\* a Python dict keyed by url, in insertion order: d[key], key in d, d[key] = v
HasKey(d, key)  == \E i \in 1..Len(d) : d[i].url = key
DictGet(d, key) == d[CHOOSE i \in 1..Len(d) : d[i].url = key]
DictSet(d, key, v) ==
    IF HasKey(d, key)
    THEN [i \in 1..Len(d) |-> IF d[i].url = key THEN v ELSE d[i]]
    ELSE Append(d, v)

\* datetime.datetime.now().isoformat() at clock tick t
isoformat(t) == <<"T">> \o IntToStr(t)

_hash_url(url) == url

\* the metadata dict add_url builds for a new URL
NewMetadata(url, id) ==
    LET parsed_url == urlparse(url)
    IN  [url       |-> url,
         id        |-> id,
         domain    |-> parsed_url.netloc,
         path      |-> parsed_url.path,
         query     |-> parsed_url.query,
         timestamp |-> None,
         version   |-> None,
         qr_data   |-> None,
         processed |-> FALSE]

\* add_url as it would be without the test for an existing entry
add_url_unchecked(url) ==
    LET url_hash == _hash_url(url)
        metadata == NewMetadata(url, nextId)
    IN  /\ op' = [name |-> "add_url", url |-> url, existed |-> url_hash \in url_hashes]
        /\ pre' = urls
        /\ urls' = DictSet(urls, url, metadata)
        /\ url_hashes' = url_hashes \cup {url_hash}
        /\ nextId' = nextId + 1
        /\ firstAdded' = IF HasKey(urls, url) THEN firstAdded ELSE Append(firstAdded, url)
        /\ dupAdds' = IF HasKey(urls, url) THEN dupAdds \cup {url} ELSE dupAdds
        /\ ret' = metadata
        /\ UNCHANGED <<clock, csvFile>>

add_url(url) ==
    LET url_hash == _hash_url(url)
    IN  /\ op' = [name |-> "add_url", url |-> url, existed |-> url_hash \in url_hashes]
        /\ pre' = urls
        /\ IF url_hash \in url_hashes
           THEN /\ ret' = (IF HasKey(urls, url) THEN DictGet(urls, url) ELSE <<"KeyError">>)
                /\ dupAdds' = dupAdds \cup {url}
                /\ UNCHANGED <<urls, url_hashes, nextId, firstAdded>>
           ELSE LET metadata == NewMetadata(url, nextId)
                IN  /\ urls' = DictSet(urls, url, metadata)
                    /\ url_hashes' = url_hashes \cup {url_hash}
                    /\ nextId' = nextId + 1
                    /\ firstAdded' = Append(firstAdded, url)
                    /\ ret' = metadata
                    /\ UNCHANGED dupAdds
        /\ UNCHANGED <<clock, csvFile>>

\* get_unprocessed_urls as it would be with the test on the flag inverted
get_unprocessed_urls_inverted ==
    /\ op' = [name |-> "get_unprocessed_urls"]
    /\ pre' = urls
    /\ ret' = SelectSeq(urls, LAMBDA metadata : metadata.processed)
    /\ UNCHANGED <<urls, url_hashes, nextId, clock, firstAdded, dupAdds, csvFile>>

get_unprocessed_urls ==
    /\ op' = [name |-> "get_unprocessed_urls"]
    /\ pre' = urls
    /\ ret' = SelectSeq(urls, LAMBDA metadata : ~metadata.processed)
    /\ UNCHANGED <<urls, url_hashes, nextId, clock, firstAdded, dupAdds, csvFile>>

\* mark_as_processed as it would be if it set the flag and left the QR fields
mark_as_processed_flag_only(url, version, qr_data) ==
    /\ op' = [name |-> "mark_as_processed", url |-> url, version |-> version,
              qr_data |-> qr_data, existed |-> HasKey(urls, url),
              wasProcessed |-> HasKey(urls, url) /\ DictGet(urls, url).processed]
    /\ pre' = urls
    /\ ret' = None
    /\ IF HasKey(urls, url)
       THEN /\ clock < MaxClock
            /\ clock' = clock + 1
            /\ urls' = DictSet(urls, url, [DictGet(urls, url) EXCEPT !.processed = TRUE])
       ELSE UNCHANGED <<urls, clock>>
    /\ UNCHANGED <<url_hashes, nextId, firstAdded, dupAdds, csvFile>>

mark_as_processed(url, version, qr_data) ==
    /\ op' = [name |-> "mark_as_processed", url |-> url, version |-> version,
              qr_data |-> qr_data, existed |-> HasKey(urls, url),
              wasProcessed |-> HasKey(urls, url) /\ DictGet(urls, url).processed]
    /\ pre' = urls
    /\ ret' = None
    /\ IF HasKey(urls, url)
       THEN /\ clock < MaxClock
            /\ clock' = clock + 1
            /\ urls' = DictSet(urls, url,
                          [DictGet(urls, url) EXCEPT !.processed = TRUE,
                                                     !.timestamp = PyStr(isoformat(clock')),
                                                     !.version   = PyInt(version),
                                                     !.qr_data   = PyStr(qr_data)])
       ELSE UNCHANGED <<urls, clock>>
    /\ UNCHANGED <<url_hashes, nextId, firstAdded, dupAdds, csvFile>>

\* export_to_csv as it would be if it wrote str(value) of each cell, so that
\* an unset field reads "None" in the file
ExportLines_str(d) ==
    LET Str(v) == IF IsNone(v) THEN PyStr(<<"N","o","n","e">>) ELSE v
    IN  <<writerow([j \in 1..4 |-> PyStr(fieldnames[j])])>> \o
        [i \in 1..Len(d) |->
            writerow(<<PyStr(d[i].url), Str(d[i].timestamp), Str(d[i].version), Str(d[i].qr_data)>>)]

\* the lines export_to_csv writes: the header, then one row per dict entry
ExportLines(d) ==
    <<writerow([j \in 1..4 |-> PyStr(fieldnames[j])])>> \o
    [i \in 1..Len(d) |->
        writerow(<<PyStr(d[i].url), d[i].timestamp, d[i].version, d[i].qr_data>>)]

export_to_csv ==
    /\ op' = [name |-> "export_to_csv"]
    /\ pre' = urls
    /\ csvFile' = ExportLines(urls)
    /\ ret' = <<"urls.csv">>
    /\ UNCHANGED <<urls, url_hashes, nextId, clock, firstAdded, dupAdds>>

\* CSVProcessor.get_urls: the rows of urls.csv as dicts
get_urls(lines) == DictReader(lines)
\* the write-back of CSVProcessor.update_qr_data: header and all rows
write_rows(rows) == DictWriter(fieldnames, rows)

AddUrl          == \E url \in URLs : add_url(url) /\ UNCHANGED <<mainVars, normVars, laterVars, thirdVars>>
GetUnprocessed  == get_unprocessed_urls /\ UNCHANGED <<mainVars, normVars, laterVars, thirdVars>>
MarkAsProcessed == \E url \in URLs, qr \in QRSamples :
                      mark_as_processed(url, qr.version, qr.qr_data)
                      /\ UNCHANGED <<mainVars, normVars, laterVars, thirdVars>>
ExportToCsv     == export_to_csv /\ UNCHANGED <<mainVars, normVars, laterVars, thirdVars>>

Init == RegIdle /\ MainIdle /\ NormIdle /\ LaterIdle /\ ThirdIdle
Next == AddUrl \/ GetUnprocessed \/ MarkAsProcessed \/ ExportToCsv
Spec == Init /\ [][Next]_vars


(***************************************************************************)
(* Claims about the registry, checked under Spec                           *)
(***************************************************************************)
\* position of url in the order of first registration, 0 when never registered
FirstPos(url) ==
    IF \E i \in 1..Len(firstAdded) : firstAdded[i] = url
    THEN CHOOSE i \in 1..Len(firstAdded) : firstAdded[i] = url
    ELSE 0
\* the data rows of urls.csv whose url cell is url
RowsFor(lines, url) == {i \in 2..Len(lines) : readrow(lines[i])[1] = url}

\* C1: the registry never holds two records whose URLs normalize to the same key.
C1_OneRecordPerKey ==
    \A i, j \in 1..Len(urls) :
        normalize_url(urls[i].url) = normalize_url(urls[j].url) => i = j

\* C2: add_url on a URL that is already registered returns the existing record
\* (the id given at first registration), leaves every record as it was, and an
\* export made after such a call has exactly one row for that URL.
C2_AddUrlIdempotent ==
    /\ (op.name = "add_url" /\ op.existed) =>
          /\ urls = pre
          /\ ret = DictGet(pre, op.url)
          /\ ret.id = FirstPos(op.url)
          /\ Cardinality({i \in 1..Len(urls) : urls[i].url = op.url}) = 1
    /\ op.name = "export_to_csv" =>
          \A url \in dupAdds : Cardinality(RowsFor(csvFile, url)) = 1
C2_Witness ==
    /\ op.name = "export_to_csv"
    /\ \E url \in dupAdds : DictGet(urls, url).processed
    /\ Len(urls) >= 2

\* C3: mark_as_processed changes nothing when the URL has no record or when
\* its record is already processed.
C3_MarkOnce ==
    (op.name = "mark_as_processed" /\ (~op.existed \/ op.wasProcessed)) => urls = pre

\* C8: get_unprocessed_urls returns exactly the records that are not
\* processed, in the order in which add_url first registered them.
C8_UnprocessedInInsertionOrder ==
    op.name = "get_unprocessed_urls" =>
        LET all == [i \in 1..Len(firstAdded) |-> DictGet(urls, firstAdded[i])]
        IN  /\ Len(firstAdded) = Len(urls)
            /\ ret = SelectSeq(all, LAMBDA m : ~m.processed)
            /\ \A i \in 1..Len(ret) : ~ret[i].processed
            /\ \A i \in 1..Len(urls) :
                  ~urls[i].processed => \E j \in 1..Len(ret) : ret[j] = urls[i]
C8_Witness ==
    /\ op.name = "get_unprocessed_urls"
    /\ Len(urls) = 3
    /\ urls[2].processed
    /\ ret = <<urls[1], urls[3]>>

C24_QrFieldsIffProcessed ==
    \A i \in 1..Len(urls) :
        IF urls[i].processed
        THEN ~IsNone(urls[i].timestamp) /\ ~IsNone(urls[i].version) /\ ~IsNone(urls[i].qr_data)
        ELSE IsNone(urls[i].timestamp) /\ IsNone(urls[i].version) /\ IsNone(urls[i].qr_data)
C24_Witness ==
    /\ op.name = "mark_as_processed"
    /\ op.existed
    /\ \E i, j \in 1..Len(urls) : urls[i].processed /\ ~urls[j].processed

\* C25: across add_url, mark_as_processed, get_unprocessed_urls and
\* export_to_csv calls no two records share an id, and every call keeps every
\* record in place with its id and url, and keeps a Processed record Processed.
C25_RecordsStable ==
    /\ [](\A i, j \in 1..Len(urls) : urls[i].id = urls[j].id => i = j)
    /\ [][\A i \in 1..Len(urls) :
              /\ i <= Len(urls')
              /\ urls'[i].url = urls[i].url
              /\ urls'[i].id = urls[i].id
              /\ urls[i].processed => urls'[i].processed]_vars
\* add_url was called for a URL whose record was already Processed
C25_Witness ==
    /\ op.name = "add_url"
    /\ op.existed
    /\ HasKey(pre, op.url)
    /\ DictGet(pre, op.url).processed
    /\ Len(urls) > 1


(***************************************************************************)
(* URLProcessor.deduplicate_urls (src/url_processor.py)                    *)
(***************************************************************************)
\* the orders in which iterating a Python set may yield its members
Orders(S) == {o \in [1..Cardinality(S) -> S] : \A i, j \in DOMAIN o : o[i] = o[j] => i = j}

\* normalized_urls after the loop over order[i..]: a dict from key to url, in
\* insertion order, that keeps the first URL seen for a key
RECURSIVE DedupFrom(_, _, _)
DedupFrom(order, i, normalized_urls) ==
    IF i > Len(order) THEN normalized_urls
    ELSE LET url        == order[i]
             normalized == normalize_url(url)
         IN  IF \E k \in 1..Len(normalized_urls) : normalized_urls[k].key = normalized
             THEN DedupFrom(order, i + 1, normalized_urls)
             ELSE DedupFrom(order, i + 1,
                            Append(normalized_urls, [key |-> normalized, url |-> url]))
\* deduplicate_urls as it would be if the last URL seen for a key were kept
deduplicate_urls_keep_last(order) ==
    LET normalized_urls == DedupFrom([i \in 1..Len(order) |-> order[Len(order) + 1 - i]], 1, <<>>)
    IN  [k \in 1..Len(normalized_urls) |-> normalized_urls[k].url]
deduplicate_urls(order) ==
    LET normalized_urls == DedupFrom(order, 1, <<>>)
    IN  [k \in 1..Len(normalized_urls) |-> normalized_urls[k].url]

(***************************************************************************)
(* QRGenerator.generate (src/qr_generator.py)                              *)
(***************************************************************************)
\* ---- the qrcode library, as generate calls it -------------------------------
Levels == {"L", "M", "Q", "H"}
ERROR_CORRECT_L == "L"
MODE_NUMBER    == "numeric"
MODE_ALPHA_NUM == "alnum"
MODE_8BIT_BYTE == "byte"

\* data codewords of versions 1..40 at each error-correction level: the sum of
\* block.data_count over base.rs_blocks(version, error_correction)
DataCodewords ==
    [L |-> <<19, 34, 55, 80, 108, 136, 156, 194, 232, 274,
             324, 370, 428, 461, 523, 589, 647, 721, 795, 861,
             932, 1006, 1094, 1174, 1276, 1370, 1468, 1531, 1631, 1735,
             1843, 1955, 2071, 2191, 2306, 2434, 2566, 2702, 2812, 2956>>,
     M |-> <<16, 28, 44, 64, 86, 108, 124, 154, 182, 216,
             254, 290, 334, 365, 415, 453, 507, 563, 627, 669,
             714, 782, 860, 914, 1000, 1062, 1128, 1193, 1267, 1373,
             1455, 1541, 1631, 1725, 1812, 1914, 1992, 2102, 2216, 2334>>,
     Q |-> <<13, 22, 34, 48, 62, 76, 88, 110, 132, 154,
             180, 206, 244, 261, 295, 325, 367, 397, 445, 485,
             512, 568, 614, 664, 718, 754, 808, 871, 911, 985,
             1033, 1115, 1171, 1231, 1286, 1354, 1426, 1502, 1582, 1666>>,
     H |-> <<9, 16, 26, 36, 46, 60, 66, 86, 100, 122,
             140, 158, 180, 197, 223, 253, 283, 313, 341, 385,
             406, 442, 464, 514, 538, 596, 628, 661, 701, 745,
             793, 845, 901, 961, 986, 1054, 1096, 1142, 1222, 1276>>]
MaxVersion == Len(DataCodewords.L)
\* util.BIT_LIMIT_TABLE[error_correction][version]
BIT_LIMIT_TABLE(error_correction, version) == 8 * DataCodewords[error_correction][version]

\* util.mode_sizes_for_version: which of the three tables of length-field widths
mode_sizes_for_version(version) ==
    IF version < 10 THEN "MODE_SIZE_SMALL"
    ELSE IF version < 27 THEN "MODE_SIZE_MEDIUM"
    ELSE "MODE_SIZE_LARGE"
\* mode_sizes[mode]: the width in bits of the length field
mode_size(mode_sizes, mode) ==
    CASE mode_sizes = "MODE_SIZE_SMALL" ->
            (CASE mode = MODE_NUMBER -> 10 [] mode = MODE_ALPHA_NUM -> 9 [] OTHER -> 8)
      [] mode_sizes = "MODE_SIZE_MEDIUM" ->
            (CASE mode = MODE_NUMBER -> 12 [] mode = MODE_ALPHA_NUM -> 11 [] OTHER -> 16)
      [] OTHER ->
            (CASE mode = MODE_NUMBER -> 14 [] mode = MODE_ALPHA_NUM -> 13 [] OTHER -> 16)
\* QRData.write: the bits the characters of one chunk take
data_bits(mode, len) ==
    CASE mode = MODE_NUMBER ->
            10 * (len \div 3) + (IF len % 3 = 2 THEN 7 ELSE IF len % 3 = 1 THEN 4 ELSE 0)
      [] mode = MODE_ALPHA_NUM -> 11 * (len \div 2) + 6 * (len % 2)
      [] OTHER -> 8 * len
\* len(buffer) after the chunks data_list[i..] were put: for each chunk the
\* 4 bits of its mode, its length field and its characters
RECURSIVE buffer_len(_, _, _)
buffer_len(data_list, mode_sizes, i) ==
    IF i > Len(data_list) THEN 0
    ELSE 4 + mode_size(mode_sizes, data_list[i].mode)
           + data_bits(data_list[i].mode, data_list[i].len)
           + buffer_len(data_list, mode_sizes, i + 1)
\* bisect_left(BIT_LIMIT_TABLE[error_correction], needed_bits, start): the
\* first version from start on whose limit is at least needed_bits, 41 if none
bisect_left(error_correction, needed_bits, start) ==
    IF \E v \in start..MaxVersion : BIT_LIMIT_TABLE(error_correction, v) >= needed_bits
    THEN Min({v \in start..MaxVersion : BIT_LIMIT_TABLE(error_correction, v) >= needed_bits})
    ELSE MaxVersion + 1

\* QRCode.best_fit(start): the version found, 41 standing for DataOverflowError.
\* The length fields are sized for start; when the version found uses wider
\* length fields, the search is repeated from that version.
RECURSIVE best_fit(_, _, _)
best_fit_guess(data_list, error_correction, mode_sizes, version) == version
best_fit_check(data_list, error_correction, mode_sizes, version) ==
    IF version = MaxVersion + 1 THEN version
    ELSE IF mode_sizes # mode_sizes_for_version(version)
         THEN best_fit(data_list, error_correction, version)
         ELSE version
best_fit_sized(data_list, error_correction, start, mode_sizes) ==
    best_fit_check(data_list, error_correction, mode_sizes,
                   bisect_left(error_correction, buffer_len(data_list, mode_sizes, 1), start))
best_fit(data_list, error_correction, start) ==
    best_fit_sized(data_list, error_correction, start, mode_sizes_for_version(start))

\* util.create_data raises DataOverflowError when the buffer exceeds the limit
create_data_fits(version, error_correction, data_list) ==
    buffer_len(data_list, mode_sizes_for_version(version), 1)
        <= BIT_LIMIT_TABLE(error_correction, version)

\* qrcode.QRCode(version, error_correction, box_size, border): a new object
QRCode_reused(version, error_correction, box_size, border) ==
    IF IsNone(lastQr)
    THEN [version |-> version, error_correction |-> error_correction,
          box_size |-> box_size, border |-> border, data_list |-> <<>>]
    ELSE lastQr
QRCode(version, error_correction, box_size, border) ==
    [version |-> version, error_correction |-> error_correction,
     box_size |-> box_size, border |-> border, data_list |-> <<>>]

\* the characters of the alphanumeric mode (util.ALPHA_NUM)
ALPHA_NUM == Range(Digits) \cup Range(UpperLetters) \cup {" ", "$", "%", "*", "+", "-", ".", "/", ":"}
\* QRCode.add_data(data) cuts data into chunks of at least this many characters
optimize == 20
\* the end of the run of characters of class that starts at position i
RECURSIVE RunEnd(_, _, _)
RunEnd(data, i, class) ==
    IF i <= Len(data) /\ data[i] \in class THEN RunEnd(data, i + 1, class) ELSE i - 1
\* re.search of class{minimum,}: where the first run of at least minimum
\* characters of class starts, 0 if there is none
FirstRun(data, class, minimum) ==
    LET I == {i \in 1..Len(data) : RunEnd(data, i, class) - i + 1 >= minimum}
    IN  IF I = {} THEN 0 ELSE Min(I)
\* util._optimal_split for a text longer than minimum: the pieces of data,
\* each with whether it is a run of class
RECURSIVE _optimal_split(_, _, _)
split_at(data, class, minimum, start) ==
    IF start = 0 THEN <<[is |-> FALSE, text |-> data]>>
    ELSE (IF start > 1 THEN <<[is |-> FALSE, text |-> Slice(data, 1, start - 1)]>> ELSE <<>>)
         \o <<[is |-> TRUE, text |-> Slice(data, start, RunEnd(data, start, class))]>>
         \o _optimal_split(From(data, RunEnd(data, start, class) + 1), class, minimum)
_optimal_split(data, class, minimum) ==
    IF data = <<>> THEN <<>>
    ELSE split_at(data, class, minimum, FirstRun(data, class, minimum))
\* util._optimal_split for a text of at most minimum characters: one piece
whole_split(data, class) ==
    IF data = <<>> THEN <<>>
    ELSE <<[is |-> Range(data) \subseteq class, text |-> data]>>
\* the chunks of one piece that is not numeric: alphanumeric or byte
RECURSIVE alpha_chunks(_, _)
alpha_chunks(pieces, i) ==
    IF i > Len(pieces) THEN <<>>
    ELSE <<[mode |-> IF pieces[i].is THEN MODE_ALPHA_NUM ELSE MODE_8BIT_BYTE,
            len  |-> Len(pieces[i].text)]>> \o alpha_chunks(pieces, i + 1)
RECURSIVE num_chunks(_, _, _)
num_chunks(pieces, i, short) ==
    IF i > Len(pieces) THEN <<>>
    ELSE (IF pieces[i].is
          THEN <<[mode |-> MODE_NUMBER, len |-> Len(pieces[i].text)]>>
          ELSE alpha_chunks(IF short THEN whole_split(pieces[i].text, ALPHA_NUM)
                            ELSE _optimal_split(pieces[i].text, ALPHA_NUM, optimize), 1))
         \o num_chunks(pieces, i + 1, short)
\* util.optimal_data_chunks(data, minimum=20): the QRData chunks, each with its
\* mode and its number of characters
optimal_data_chunks(data) ==
    IF Len(data) <= optimize
    THEN num_chunks(whole_split(data, Range(Digits)), 1, TRUE)
    ELSE num_chunks(_optimal_split(data, Range(Digits), optimize), 1, FALSE)
\* QRCode.add_data
add_data(q, data_chunks) == [q EXCEPT !.data_list = @ \o data_chunks]
\* QRCode.make(fit=True): best_fit, then the symbol is built (create_data)
make_version(q, version) ==
    [raised |-> version > MaxVersion \/ ~create_data_fits(version, q.error_correction, q.data_list),
     qr     |-> [q EXCEPT !.version = PyInt(version)]]
make(q) == make_version(q, best_fit(q.data_list, q.error_correction, 1))

\* The '0'/'1' string built from qr.get_matrix().  The real string has one
\* character per module; the model keeps one character per version step.
binary_string(version) == [i \in 1..(version + 1) |-> IF i % 2 = 1 THEN "1" ELSE "0"]

\* ---- QRGenerator (src/qr_generator.py) ---------------------------------------
\* QRGenerator.__init__ with the configuration's values
QRGenerator(qr_error_correction, qr_box_size, qr_border) ==
    [error_correction |-> qr_error_correction, box_size |-> qr_box_size, border |-> qr_border]
\* ConfigManager's defaults
default_config == QRGenerator(ERROR_CORRECT_L, 10, 4)
\* generate after qr.add_data: make, then the image and the module string;
\* an exception of make reaches the caller
generate_made(made) ==
    IF made.raised
    THEN [raised |-> TRUE, qr |-> made.qr]
    ELSE [raised |-> FALSE, qr |-> made.qr, version |-> made.qr.version.int,
          binary_data |-> binary_string(made.qr.version.int)]
\* generate for a payload that add_data cuts into data_chunks
generate_chunks(self, data_chunks) ==
    generate_made(make(add_data(QRCode(None, self.error_correction, self.box_size, self.border),
                                data_chunks)))
\* for a URL: the version the encoder chose and the module string
generate(url) == generate_chunks(default_config, optimal_data_chunks(url))

(***************************************************************************)
(* CSVManager (src/csv_manager.py) and main.py process_file                *)
(***************************************************************************)
h_qr_version == <<"q","r","_","v","e","r","s","i","o","n">>
h_image_data == <<"i","m","a","g","e","_","d","a","t","a">>
headers      == <<h_url, h_qr_version, h_binary_data, h_image_data>>
\* base64 text of the PNG image
img_str      == <<"i","V","B","O">>

\* CSVManager._create_csv
_create_csv == <<writerow([j \in 1..4 |-> PyStr(headers[j])])>>

\* CSVManager.get_existing_urls: the url column of the file.  When the file
\* cannot be read, the handler prints the error and the list is returned empty.
get_existing_urls(lines, readable) ==
    IF ~readable THEN <<>>
    ELSE LET rows == DictReader(lines)
         IN  [i \in 1..Len(rows) |->
                 IF PyStr(h_url) \in DOMAIN rows[i] /\ ~IsNone(rows[i][PyStr(h_url)])
                 THEN rows[i][PyStr(h_url)].str ELSE <<>>]

\* CSVManager.add_entry: one line appended to the file.  When the file cannot
\* be written, the handler prints the error and add_entry returns False.
add_entry(lines, url, qr_version, binary_data, writable) ==
    IF ~writable THEN lines
    ELSE Append(lines, writerow(<<PyStr(url), PyInt(qr_version), PyStr(binary_data), PyStr(img_str)>>))

\* the file after the loop of process_file over new_urls[i..]; what add_entry
\* returns is not looked at
RECURSIVE AddEntriesFrom(_, _, _, _)
AddEntriesFrom(lines, new_urls, i, writable) ==
    IF i > Len(new_urls) THEN lines
    ELSE AddEntriesFrom(add_entry(lines, new_urls[i], 1, generate(new_urls[i]).binary_data, writable),
                        new_urls, i + 1, writable)

\* raw_urls is what the extractor found in file_path, order the order in which
\* deduplicate_urls happens to iterate that set; readable and writable say
\* whether master_urls.csv can be read and written during this run
process_file_new(file_path, raw_urls, processed_urls, new_urls, readable, writable) ==
    /\ masterCsv' = AddEntriesFrom(masterCsv, new_urls, 1, writable)
    /\ qrLog' = [url \in DOMAIN qrLog \cup Range(new_urls) |->
                    IF url \in Range(new_urls) THEN generate(url).version ELSE qrLog[url]]
    /\ result' = [input_file  |-> file_path,
                  total_urls  |-> Cardinality(raw_urls),
                  unique_urls |-> Len(processed_urls),
                  new_urls    |-> Len(new_urls)]
    /\ mainEnv' = [readable |-> readable, writable |-> writable, generated |-> new_urls,
                   faulty |-> mainEnv.faulty \/ ~readable \/ ~writable]
process_file_existing(file_path, raw_urls, processed_urls, existing_urls, readable, writable) ==
    process_file_new(file_path, raw_urls, processed_urls,
                     SelectSeq(processed_urls, LAMBDA url : url \notin Range(existing_urls)),
                     readable, writable)
process_file(file_path, raw_urls, order, readable, writable) ==
    process_file_existing(file_path, raw_urls, deduplicate_urls(order),
                          get_existing_urls(masterCsv, readable), readable, writable)

InputFiles == {"links.txt", "notes.md"}

ProcessFile ==
    /\ runs < MaxRuns
    /\ runs' = runs + 1
    /\ \E file_path \in InputFiles, raw_urls \in SUBSET URLs, readable \in BOOLEAN, writable \in BOOLEAN :
          \E order \in Orders(raw_urls) : process_file(file_path, raw_urls, order, readable, writable)
    /\ UNCHANGED <<regVars, normVars, laterVars, thirdVars>>

MainConstructed ==
    /\ masterCsv = _create_csv
    /\ runs = 0
    /\ result = None
    /\ qrLog = <<>>
    /\ mainEnv = [readable |-> TRUE, writable |-> TRUE, generated |-> <<>>, faulty |-> FALSE]
MainInit == MainConstructed /\ RegIdle /\ NormIdle /\ LaterIdle /\ ThirdIdle
MainNext == ProcessFile
SpecMain == MainInit /\ [][MainNext]_vars

\* the data rows of master_urls.csv, as lists of cells
MasterRows == [i \in 1..(Len(masterCsv) - 1) |-> readrow(masterCsv[i + 1])]

\* C4: master_urls.csv never holds two rows whose URLs normalize to the same
\* key, here already when every run could read and write the file.
C4_OneRowPerKey ==
    ~mainEnv.faulty =>
        \A i, j \in 1..Len(MasterRows) :
            normalize_url(MasterRows[i][1]) = normalize_url(MasterRows[j][1]) => i = j

\* C10: the version stored in a row of master_urls.csv is the version the
\* encoder selected when it encoded the row's URL.
C10_StoredVersionIsEncoderVersion ==
    \A i \in 1..Len(MasterRows) :
        /\ MasterRows[i][1] \in DOMAIN qrLog
        /\ MasterRows[i][2] = IntToStr(qrLog[MasterRows[i][1]])

\* C19: a run that could not read master_urls.csv encodes nothing and reports
\* no URL as new, and a run that could not write it reports no URL as new.
C19_PersistenceFailureAborts ==
    runs > 0 =>
        /\ ~mainEnv.readable => (mainEnv.generated = <<>> /\ result.new_urls = 0)
        /\ ~mainEnv.writable => result.new_urls = 0


(***************************************************************************)
(* SpecNorm: normalize_url applied to a URL and to a variation of it       *)
(***************************************************************************)
\* The URLs are assembled from components, so that a variation can be named
\* by the component it touches; normalize_url itself only sees the text.
Users    == {<<>>, <<"U","@">>}
WwwRuns  == {<<>>, www_dot, www_dot \o www_dot}
Hosts    == {<<"e","x",".","c","o","m">>, <<"[","e","x",".","c","o","m">>}
Paths    == {<<>>, <<"/">>, <<"/","a">>, <<"/","a","/">>, <<"/","A">>}
Queries  == {<<>>, <<"?","x","&","y">>, <<"?","y","&","x">>}
Frags    == {<<>>, <<"#","f">>}

BuildUrl(c) ==
    c.scheme \o <<":","/","/">> \o c.user \o c.www \o c.host \o c.path \o c.query \o c.frag

EquivKinds    == {"fragment", "scheme_case", "host_case", "www"}
DistinctKinds == {"trailing_slash", "path_case", "query_order"}

ToggleCase(s) == IF s = Lower(s) THEN Upper(s) ELSE Lower(s)
ToggleSlash(p) == IF p # <<>> /\ p[Len(p)] = "/" THEN Slice(p, 1, Len(p) - 1)
                  ELSE p \o <<"/">>

NormInputs ==
    /\ uc \in [scheme : {s_http}, user : Users, www : WwwRuns, host : Hosts,
               path : Paths, query : Queries, frag : Frags]
    /\ vc = uc
    /\ edits = {}
    /\ nEdits = 0
    /\ applied = FALSE
    /\ ku = <<>>
    /\ kv = <<>>

Vary(kind, c) ==
    /\ ~applied
    /\ nEdits < MaxEdits
    /\ c # vc
    /\ vc' = c
    /\ edits' = edits \cup {kind}
    /\ nEdits' = nEdits + 1
    /\ UNCHANGED <<uc, applied, ku, kv>>

\* the second URL gets another fragment
VaryFragment ==
    \E f \in Frags : Vary("fragment", [vc EXCEPT !.frag = f]) /\ UNCHANGED <<regVars, mainVars, laterVars, thirdVars>>
\* the second URL gets its scheme in the other letter case
VarySchemeCase ==
    Vary("scheme_case", [vc EXCEPT !.scheme = ToggleCase(@)]) /\ UNCHANGED <<regVars, mainVars, laterVars, thirdVars>>
\* the second URL gets its host (with its www. labels) in the other letter case
VaryHostCase ==
    LET name == ToggleCase(vc.www \o vc.host)
    IN  Vary("host_case", [vc EXCEPT !.www  = Slice(name, 1, Len(vc.www)),
                                     !.host = From(name, Len(vc.www) + 1)])
        /\ UNCHANGED <<regVars, mainVars, laterVars, thirdVars>>
\* the second URL gains or loses one leading www. label
VaryWww ==
    \/ /\ Len(vc.www) < 8
       /\ Vary("www", [vc EXCEPT !.www = www_dot \o @]) /\ UNCHANGED <<regVars, mainVars, laterVars, thirdVars>>
    \/ /\ Len(vc.www) >= 4
       /\ Vary("www", [vc EXCEPT !.www = From(@, 5)]) /\ UNCHANGED <<regVars, mainVars, laterVars, thirdVars>>
\* the second URL gains or loses the trailing slash of its path
VaryTrailingSlash ==
    Vary("trailing_slash", [vc EXCEPT !.path = ToggleSlash(@)]) /\ UNCHANGED <<regVars, mainVars, laterVars, thirdVars>>
\* the second URL gets its path in the other letter case
VaryPathCase ==
    Vary("path_case", [vc EXCEPT !.path = ToggleCase(@)]) /\ UNCHANGED <<regVars, mainVars, laterVars, thirdVars>>
\* the second URL gets its two query parameters in the other order
VaryQueryOrder ==
    /\ vc.query # <<>>
    /\ Vary("query_order", [vc EXCEPT !.query = <<"?", @[4], "&", @[2]>>])
    /\ UNCHANGED <<regVars, mainVars, laterVars, thirdVars>>

\* normalize_url is applied to both URLs
Normalize ==
    /\ ~applied
    /\ applied' = TRUE
    /\ ku' = normalize_url(BuildUrl(uc))
    /\ kv' = normalize_url(BuildUrl(vc))
    /\ UNCHANGED <<uc, vc, edits, nEdits, regVars, mainVars, laterVars, thirdVars>>

NormNext ==
    \/ VaryFragment
    \/ VarySchemeCase
    \/ VaryHostCase
    \/ VaryWww
    \/ VaryTrailingSlash
    \/ VaryPathCase
    \/ VaryQueryOrder
    \/ Normalize

\* netloc.rpartition('@'): the userinfo with its '@', and what follows it
UserInfo(netloc) == Slice(netloc, 1, RFind(netloc, "@"))
HostPort(netloc) == From(netloc, RFind(netloc, "@") + 1)
StripWww(h)      == IF StartsWith(h, www_dot) THEN From(h, 5) ELSE h

\* C5: two URLs that differ only in fragment, scheme letter case, host letter
\* case or a leading 'www.' host label have the same normalized key.
Parseable(c) == urlparse(BuildUrl(c)).ok
C5_SameKey ==
    (applied /\ edits # {} /\ edits \subseteq EquivKinds /\ Parseable(uc) /\ Parseable(vc))
        => ku = kv

\* C6: two URLs whose paths differ (trailing slash, letter case) or whose
\* queries differ (parameter order) have different normalized keys.
C6_DistinctKey ==
    (applied /\ (uc.path # vc.path \/ uc.query # vc.query)) => ku # kv
C6_Witness ==
    /\ applied
    /\ edits = {"trailing_slash"}
    /\ uc.path = <<"/","a">>
    /\ vc.path = <<"/","a","/">>
    /\ ku # kv

\* C7: for a parseable URL, normalize_url changes only the scheme (lower-cased),
\* the host (lower-cased, one leading 'www.' removed) and the fragment
\* (removed); userinfo, path, parameters and query are those of the input.
C7_OnlySchemeHostFragment ==
    LET p == urlparse(BuildUrl(uc))
        r == urlparse(ku)
    IN  (applied /\ p.ok) =>
            /\ r.scheme = Lower(p.scheme)
            /\ UserInfo(r.netloc) = UserInfo(p.netloc)
            /\ HostPort(r.netloc) = StripWww(Lower(HostPort(p.netloc)))
            /\ r.path = p.path
            /\ r.params = p.params
            /\ r.query = p.query
            /\ r.fragment = <<>>

\* C28: normalize_url is idempotent: normalizing a normalized key gives that
\* key again, also for a host that begins with more than one 'www.' label.
C28_Idempotent ==
    applied => (normalize_url(ku) = ku /\ normalize_url(kv) = kv)

NormInit == NormInputs /\ RegIdle /\ MainIdle /\ LaterIdle /\ ThirdIdle
SpecNorm == NormInit /\ [][NormNext]_vars


(***************************************************************************)
(* SpecEnc: one payload handed to each entry point of the encoder          *)
(***************************************************************************)
\* The payload is given by the chunks add_data makes of it: nothing, a run of
\* one mode, or text in byte mode followed by a run of digits or of
\* alphanumeric characters long enough to be a chunk of its own.
OneChunk(mode, len) == <<[mode |-> mode, len |-> len]>>
PayloadChunks ==
    {<<>>}
    \cup {OneChunk(mode, n) : mode \in {MODE_8BIT_BYTE, MODE_NUMBER, MODE_ALPHA_NUM}, n \in 1..MaxBytes}
    \cup {OneChunk(MODE_8BIT_BYTE, n) \o OneChunk(mode, optimize) :
             mode \in {MODE_NUMBER, MODE_ALPHA_NUM}, n \in 1..MaxBytes}

png_file   == "qrcode.png"
bin_file   == "qrcode.bin"
url_md     == "url.md"
csv_row    == "master_urls.csv row"
output_dir == "output_path"

\* main.py, the body of the loop over new_urls: generate, then add_entry.
\* generate has no handler, so DataOverflowError leaves the loop.
main_loop_body(out) ==
    [raised |-> out.raised, level |-> out.qr.error_correction,
     version |-> IF out.raised THEN None ELSE out.qr.version,
     files |-> IF out.raised THEN {} ELSE {csv_row}]
\* generate-qr-code.py generate_qr_code: level L, and the whole body is inside
\* try / except Exception, which prints the error and returns
script_generate_qr_code(made) ==
    [raised |-> FALSE, level |-> made.qr.error_correction,
     version |-> IF made.raised THEN None ELSE made.qr.version,
     files |-> IF made.raised THEN {} ELSE {png_file, bin_file}]
\* link_extractor_qr_generator.py QRCodeGenerator.generate_qr_code: makedirs,
\* then make without a handler, then the image and the sidecars
link_generate_qr_code(made) ==
    [raised |-> made.raised, level |-> made.qr.error_correction,
     version |-> IF made.raised THEN None ELSE made.qr.version,
     files |-> IF made.raised THEN {output_dir} ELSE {output_dir, png_file, bin_file, url_md}]

Called(name, out) ==
    /\ IsNone(encOp)
    /\ encOp' = PyStr(name)
    /\ encOut' = out
    /\ UNCHANGED <<generator, lastQr, genLog, chunks, firstVars, pdfVars, batchVars, extVars, thirdVars>>
Generate ==
    Called("QRGenerator.generate", main_loop_body(generate_chunks(generator, chunks)))
GenerateQrCode ==
    Called("generate_qr_code",
           script_generate_qr_code(make(add_data(QRCode(None, ERROR_CORRECT_L, 10, 4), chunks))))
LinkGenerateQrCode ==
    Called("QRCodeGenerator.generate_qr_code",
           link_generate_qr_code(make(add_data(
               QRCode(None, generator.error_correction, generator.box_size, generator.border),
               chunks))))

EncInit ==
    /\ generator \in {QRGenerator(level, 10, 4) : level \in Levels}
    /\ lastQr = None
    /\ genLog = <<>>
    /\ chunks \in PayloadChunks
    /\ encOp = None
    /\ encOut = None
    /\ FirstIdle /\ PdfIdle /\ BatchIdle /\ ExtIdle /\ ThirdIdle
EncNext == Generate \/ GenerateQrCode \/ LinkGenerateQrCode
SpecEnc == EncInit /\ [][EncNext]_vars

\* version can hold the payload at the level: the bits of all chunks, with the
\* length fields of that version, are within the data capacity of the version
Holds(version, level, data_list) ==
    buffer_len(data_list, mode_sizes_for_version(version), 1) <= 8 * DataCodewords[level][version]
HoldingVersions(level, data_list) == {v \in 1..MaxVersion : Holds(v, level, data_list)}

\* C11: whenever some version in 1..40 can hold the payload at the level, the
\* encoder produces a symbol, and its version is the smallest such version.
C11_MinimalVersion ==
    (~IsNone(encOut) /\ HoldingVersions(encOut.level, chunks) # {})
        => encOut.version = PyInt(Min(HoldingVersions(encOut.level, chunks)))
\* a payload whose first guess (version 10, with the short length field of
\* versions 1..9) is too small once the length field has its real width
C11_Witness ==
    /\ encOp = PyStr("QRGenerator.generate")
    /\ chunks = OneChunk(MODE_8BIT_BYTE, 272)
    /\ generator.error_correction = ERROR_CORRECT_L
    /\ encOut.version = PyInt(11)

\* C12: a payload that no version can hold makes the encoder fail, the failure
\* reaches the caller and no image, sidecar or CSV row is produced; a payload
\* that version 40 can hold is encoded.
C12_OverflowPropagates ==
    ~IsNone(encOut) =>
        /\ HoldingVersions(encOut.level, chunks) = {}
              => (encOut.raised /\ encOut.files \cap {png_file, bin_file, url_md, csv_row} = {})
        /\ Holds(MaxVersion, encOut.level, chunks)
              => (~encOut.raised /\ ~IsNone(encOut.version))


(***************************************************************************)
(* SpecGen: repeated generate calls on one QRGenerator object              *)
(***************************************************************************)
\* QRGenerator.generate(url) as a call on the object: the QRCode object is a
\* local of the call, and the fields of self are only read
generate_call(url, out) ==
    /\ lastQr' = out.qr
    /\ genLog' = Append(genLog,
                        [url |-> url, raised |-> out.raised,
                         binary_data |-> IF out.raised THEN None ELSE PyStr(out.binary_data)])
GenerateUrl ==
    /\ Len(genLog) < MaxCalls
    /\ \E url \in URLs :
          generate_call(url, generate_chunks(generator, optimal_data_chunks(url)))
    /\ UNCHANGED <<generator, chunks, encOp, encOut, firstVars, pdfVars, batchVars, extVars, thirdVars>>

GenInit ==
    /\ generator \in {QRGenerator(level, box_size, border) :
                         level \in Levels, box_size \in {10, 5}, border \in {4, 1}}
    /\ lastQr = None
    /\ genLog = <<>>
    /\ chunks = <<>>
    /\ encOp = None
    /\ encOut = None
    /\ FirstIdle /\ PdfIdle /\ BatchIdle /\ ExtIdle /\ ThirdIdle
GenNext == GenerateUrl
SpecGen == GenInit /\ [][GenNext]_vars

page_width      == 4 * 210
page_height     == 4 * 297
quadrant_width  == page_width \div 2
quadrant_height == page_height \div 2
quadrant_centers_column_major ==
    << <<quadrant_width \div 2, quadrant_height \div 2>>,
       <<quadrant_width \div 2, (quadrant_height * 3) \div 2>>,
       <<(quadrant_width * 3) \div 2, quadrant_height \div 2>>,
       <<(quadrant_width * 3) \div 2, (quadrant_height * 3) \div 2>> >>
quadrant_centers ==
    << <<quadrant_width \div 2, quadrant_height \div 2>>,
       <<(quadrant_width * 3) \div 2, quadrant_height \div 2>>,
       <<quadrant_width \div 2, (quadrant_height * 3) \div 2>>,
       <<(quadrant_width * 3) \div 2, (quadrant_height * 3) \div 2>> >>
qr_size == 4 * 70
\* math.ceil(total_qr_codes / 4)
num_pages(total_qr_codes) ==
    IF total_qr_codes % 4 = 0 THEN total_qr_codes \div 4 ELSE total_qr_codes \div 4 + 1

\* What a record's image is at layout time
image_ok          == "ok"           \* a PNG that decodes and can be placed
image_none        == "none"         \* image_data is empty / the file is missing
image_undecodable == "undecodable"  \* base64.b64decode raises
image_unreadable  == "unreadable"   \* decodes, but pdf.image cannot read it
ImageStates == {image_ok, image_none, image_undecodable, image_unreadable}

temp_dir == <<"temp_qr">>
temp_img_path(entry_idx) == <<"temp_qr", entry_idx>>

\* pdf.image(path, x, y, w) for the record at entry_idx
Placed(entry_idx, page_idx, x, y, w) ==
    [entry |-> entry_idx, page |-> page_idx, x |-> x, y |-> y, w |-> w]

\* PDFGenerator.generate, the body of the loop over quadrant_idx.  acc holds
\* the pages added, the images placed, temp_files and the files on disk.
quadrant_body(entry, entry_idx, page_idx, center, acc) ==
    IF entry.image = image_none THEN acc
    ELSE IF entry.image = image_undecodable
    THEN [acc EXCEPT !.temp_files = Append(@, temp_img_path(entry_idx))]
    ELSE IF entry.image = image_unreadable
    THEN [acc EXCEPT !.temp_files = Append(@, temp_img_path(entry_idx)),
                     !.disk = @ \cup {temp_img_path(entry_idx)}]
    ELSE [acc EXCEPT !.temp_files = Append(@, temp_img_path(entry_idx)),
                     !.disk = @ \cup {temp_img_path(entry_idx)},
                     !.placed = Append(@, Placed(entry_idx, page_idx,
                                                 center[1] - qr_size \div 2,
                                                 center[2] - qr_size \div 2, qr_size))]
add_page(acc) == [acc EXCEPT !.pages = @ + 1]
\* the loops over page_idx and quadrant_idx, from (page_idx, quadrant_idx) on
RECURSIVE generate_loop(_, _, _, _)
quadrant_step(csv_entries, page_idx, quadrant_idx, entry_idx, acc) ==
    generate_loop(csv_entries, page_idx, quadrant_idx + 1,
                  IF entry_idx >= Len(csv_entries) THEN acc
                  ELSE quadrant_body(csv_entries[entry_idx + 1], entry_idx, page_idx,
                                     quadrant_centers[quadrant_idx + 1], acc))
generate_loop(csv_entries, page_idx, quadrant_idx, acc) ==
    IF page_idx >= num_pages(Len(csv_entries)) THEN acc
    ELSE IF quadrant_idx >= 4 THEN generate_loop(csv_entries, page_idx + 1, 0, acc)
    ELSE quadrant_step(csv_entries, page_idx, quadrant_idx, page_idx * 4 + quadrant_idx,
                       IF quadrant_idx = 0 THEN add_page(acc) ELSE acc)
\* after the loops: pdf.output, then the removal of temp_files and temp_dir.
\* When pdf.output raises, the handler at the end returns False at once.
generate_finish(acc, output_ok) ==
    IF output_ok
    THEN [ret |-> TRUE, pages |-> acc.pages, placed |-> acc.placed,
          disk |-> IF acc.disk \subseteq Range(acc.temp_files) \cup {temp_dir} THEN {}
                   ELSE acc.disk \ Range(acc.temp_files)]
    ELSE [ret |-> FALSE, pages |-> acc.pages, placed |-> <<>>, disk |-> acc.disk]
\* PDFGenerator.generate(csv_entries, output_path)
generate_pdf(csv_entries, available, output_ok) ==
    IF ~available THEN [ret |-> FALSE, pages |-> 0, placed |-> <<>>, disk |-> {}]
    ELSE generate_finish(generate_loop(csv_entries, 0, 0,
                                       [pages |-> 0, placed |-> <<>>, temp_files |-> <<>>,
                                        disk |-> {temp_dir}]),
                         output_ok)

\* improved_qr_code_generator.py PDFGenerator.create_pdf: pages of up to four
\* records, record j of a page at column j % 2 and row j // 2.  pdf.image is
\* not guarded: an image it cannot read ends the whole operation.
RECURSIVE create_pdf_loop(_, _, _, _)
create_pdf_cell(qr_data, i, j, x, y, acc) ==
    IF qr_data[i + j + 1].image # image_ok THEN [acc EXCEPT !.failed = TRUE]
    ELSE create_pdf_loop(qr_data, i, j + 1,
                         [acc EXCEPT !.placed = Append(@, Placed(i + j, i \div 4,
                                                                 4 * (x + 15), 4 * (y + 15), 4 * 40))])
create_pdf_loop(qr_data, i, j, acc) ==
    IF i >= Len(qr_data) THEN acc
    ELSE IF j >= 4 \/ i + j >= Len(qr_data) THEN create_pdf_loop(qr_data, i + 4, 0, acc)
    ELSE create_pdf_cell(qr_data, i, j, 30 + (j % 2) * 85, 30 + (j \div 2) * 120,
                         IF j = 0 THEN add_page(acc) ELSE acc)
create_pdf_finish(acc, output_ok) ==
    IF acc.failed \/ ~output_ok
    THEN [ret |-> FALSE, pages |-> acc.pages, placed |-> <<>>, disk |-> {}]
    ELSE [ret |-> TRUE, pages |-> acc.pages, placed |-> acc.placed, disk |-> {}]
create_pdf(qr_data, available, output_ok) ==
    IF ~available \/ qr_data = <<>>
    THEN [ret |-> FALSE, pages |-> 0, placed |-> <<>>, disk |-> {}]
    ELSE create_pdf_finish(create_pdf_loop(qr_data, 0, 0,
                                           [pages |-> 0, placed |-> <<>>, failed |-> FALSE]),
                           output_ok)

\* OutputGenerator.create_powerpoint: one slide per record, its picture at
\* Inches(2), Inches(1.5) with width Inches(4) (here in tenths of an inch);
\* add_picture is not guarded either
RECURSIVE create_powerpoint_loop(_, _, _)
create_powerpoint_loop(qr_data, k, acc) ==
    IF k >= Len(qr_data) THEN acc
    ELSE IF qr_data[k + 1].image # image_ok THEN [add_page(acc) EXCEPT !.failed = TRUE]
    ELSE create_powerpoint_loop(qr_data, k + 1,
                                [add_page(acc) EXCEPT !.placed = Append(@, Placed(k, k, 20, 15, 40))])
create_powerpoint(qr_data, available, output_ok) ==
    IF ~available \/ qr_data = <<>>
    THEN [ret |-> FALSE, pages |-> 0, placed |-> <<>>, disk |-> {}]
    ELSE create_pdf_finish(create_powerpoint_loop(qr_data, 0,
                                                  [pages |-> 0, placed |-> <<>>, failed |-> FALSE]),
                           output_ok)

\* available: the PDF / slide library is installed; output_ok: the report
\* file can be written to output_path
Laid(name, out, available, output_ok) ==
    /\ IsNone(pdfOp)
    /\ pdfOp' = PyStr(name)
    /\ pdfOut' = out @@ [available |-> available, output_ok |-> output_ok]
    /\ UNCHANGED <<entries, firstVars, encVars, batchVars, extVars, thirdVars>>
GeneratePdf ==
    \E available, output_ok \in BOOLEAN :
        Laid("PDFGenerator.generate", generate_pdf(entries, available, output_ok), available, output_ok)
CreatePdf ==
    \E available, output_ok \in BOOLEAN :
        Laid("PDFGenerator.create_pdf", create_pdf(entries, available, output_ok), available, output_ok)
CreatePowerpoint ==
    \E available, output_ok \in BOOLEAN :
        Laid("OutputGenerator.create_powerpoint", create_powerpoint(entries, available, output_ok),
             available, output_ok)

EntryLists == UNION {[1..n -> ImageStates] : n \in 0..MaxEntries}
PdfInit ==
    /\ \E images \in EntryLists : entries = [i \in 1..Len(images) |-> [image |-> images[i]]]
    /\ pdfOp = None
    /\ pdfOut = None
    /\ FirstIdle /\ EncIdle /\ BatchIdle /\ ExtIdle /\ ThirdIdle
PdfNext == GeneratePdf \/ CreatePdf \/ CreatePowerpoint
SpecPdf == PdfInit /\ [][PdfNext]_vars

\* the quadrant an image lies in, from the position of its center on the page:
\* 0 top-left, 1 top-right, 2 bottom-left, 3 bottom-right
SlotOf(p) ==
    (IF p.x + p.w \div 2 < page_width \div 2 THEN 0 ELSE 1)
    + (IF p.y + p.w \div 2 < page_height \div 2 THEN 0 ELSE 2)
Quadrant(name) == name \in {PyStr("PDFGenerator.generate"), PyStr("PDFGenerator.create_pdf")}
PlacedEntries == {pdfOut.placed[k].entry : k \in 1..Len(pdfOut.placed)}

\* C14: a finished quadrant layout of n records has ceil(n/4) pages, and the
\* record at 0-based input position i is on page i div 4, in slot i mod 4 of
\* the order top-left, top-right, bottom-left, bottom-right.
C14_RowMajorPages ==
    (Quadrant(pdfOp) /\ pdfOut.ret) =>
        /\ pdfOut.pages = (Len(entries) + 3) \div 4
        /\ \A k \in 1..Len(pdfOut.placed) :
              /\ pdfOut.placed[k].page = pdfOut.placed[k].entry \div 4
              /\ SlotOf(pdfOut.placed[k]) = pdfOut.placed[k].entry % 4
        /\ \A i \in 1..Len(entries) : entries[i].image = image_ok => (i - 1) \in PlacedEntries
\* five records: two pages, the fifth record top-left on the second page
C14_Witness ==
    /\ pdfOp = PyStr("PDFGenerator.generate")
    /\ Len(entries) = 5
    /\ pdfOut.ret
    /\ pdfOut.pages = 2
    /\ Len(pdfOut.placed) = 5
    /\ pdfOut.placed[5].page = 1 /\ SlotOf(pdfOut.placed[5]) = 0
    /\ pdfOut.placed[2].page = 0 /\ SlotOf(pdfOut.placed[2]) = 1

\* the center the claim gives slot k (0..3) on a page of width page_width and
\* height page_height
SlotCenter(k) ==
    <<(IF k % 2 = 0 THEN page_width ELSE 3 * page_width) \div 4,
      (IF k \div 2 = 0 THEN page_height ELSE 3 * page_height) \div 4>>
\* C22: in a finished quadrant layout the image of slot k is a square whose
\* center is the k-th of (W/4, H/4), (3W/4, H/4), (W/4, 3H/4), (3W/4, 3H/4), and
\* the square lies inside the quadrant of that center.
C22_CenteredInQuadrant ==
    (Quadrant(pdfOp) /\ pdfOut.ret) =>
        \A k \in 1..Len(pdfOut.placed) :
            LET p == pdfOut.placed[k]
                c == SlotCenter(p.entry % 4)
            IN  /\ 2 * p.x + p.w = 2 * c[1]
                /\ 2 * p.y + p.w = 2 * c[2]
                /\ p.x >= c[1] - page_width \div 4 /\ p.x + p.w <= c[1] + page_width \div 4
                /\ p.y >= c[2] - page_height \div 4 /\ p.y + p.w <= c[2] + page_height \div 4

\* C15: when the report can be written and exactly one record has no usable
\* image, the layout operation succeeds and places every other record.
C15_BadRecordSkipped ==
    (/\ ~IsNone(pdfOut)
     /\ pdfOut.available /\ pdfOut.output_ok
     /\ Cardinality({i \in 1..Len(entries) : entries[i].image # image_ok}) = 1)
        => /\ pdfOut.ret
           /\ \A i \in 1..Len(entries) : entries[i].image = image_ok => (i - 1) \in PlacedEntries

\* C16: when PDFGenerator.generate has returned, True or False, no temporary
\* file and no temporary directory of it is left.
C16_TempFilesRemoved ==
    pdfOp = PyStr("PDFGenerator.generate") => pdfOut.disk = {}


(***************************************************************************)
(* SpecBatch: BatchProcessor.process_directory (src/batch_processor.py)    *)
(***************************************************************************)
\* os.path.basename, os.path.splitext and os.path.join on POSIX paths
basename(path) == From(path, RFind(path, "/") + 1)
\* where splitext cuts name: before its last dot, unless only dots precede it
splitext_at(name) ==
    IF RFind(name, ".") > 0 /\ \E k \in 1..(RFind(name, ".") - 1) : name[k] # "."
    THEN RFind(name, ".") ELSE Len(name) + 1
splitext_root(path) == Slice(path, 1, RFind(path, "/") + splitext_at(basename(path)) - 1)
splitext_ext(path)  == From(path, RFind(path, "/") + splitext_at(basename(path)))
path_join(a, b) == a \o <<"/">> \o b

\* the files of the input directory, and the order os.listdir gives them in
DirFiles == { <<"d","/","a",".","t","x","t">>, <<"d","/","a",".","m","d">>,
              <<"d","/","b",".","T","X","T">>, <<"d","/","c",".","p","n","g">> }
Listings == UNION {Orders(S) : S \in SUBSET DirFiles}
\* config['file_extensions'], as far as the files above go
allowed_extensions == { <<".","t","x","t">>, <<".","m","d">> }
\* get_files_to_process, not recursive
get_files_to_process(listing) ==
    SelectSeq(listing, LAMBDA file_path : Lower(splitext_ext(file_path)) \in allowed_extensions)

batch_output_dir == <<"o","u","t">>
\* process_file: the directory the outputs of file_path go to
file_output_dir(file_path, out_dir) == path_join(out_dir, splitext_root(basename(file_path)))

\* what a process_file call returns: on success the dict with output_dir and
\* links_found, on any exception the dict with error
process_file_result(file_path, out_dir, success, links_found) ==
    IF success
    THEN [input_file |-> file_path, output_dir |-> PyStr(out_dir),
          links_found |-> links_found, success |-> TRUE]
    ELSE [input_file |-> file_path, output_dir |-> None, links_found |-> 0, success |-> FALSE]

Running == {i \in 1..Len(tasks) : tasks[i].state = "running"}

\* process_directory up to the choice between the pool and the loop
ProcessDirectory ==
    /\ batchPc = "start"
    /\ tasks' = [i \in 1..Len(batchFiles) |->
                    [state |-> "pending", dir |-> None, result |-> None]]
    /\ batchPc' = IF maxWorkers > 1 /\ Len(batchFiles) > 1 THEN "as_completed" ELSE "sequential"
    /\ UNCHANGED <<batchFiles, maxWorkers, batchResults, batchOut>>
    /\ UNCHANGED <<firstVars, encVars, pdfVars, extVars, thirdVars>>
\* a pool thread takes the next submitted task and begins process_file: the
\* output directory is computed and made
WorkerStart(i) ==
    /\ batchPc = "as_completed"
    /\ tasks[i].state = "pending"
    /\ \A j \in 1..(i - 1) : tasks[j].state # "pending"
    /\ Cardinality(Running) < maxWorkers
    /\ tasks' = [tasks EXCEPT ![i].state = "running",
                              ![i].dir = PyStr(file_output_dir(batchFiles[i], batch_output_dir))]
    /\ UNCHANGED <<batchFiles, maxWorkers, batchResults, batchPc, batchOut>>
    /\ UNCHANGED <<firstVars, encVars, pdfVars, extVars, thirdVars>>
\* the subprocess of a running task ends, with exit status 0 or not, and
\* process_file returns its dict
WorkerFinish(i) ==
    /\ batchPc = "as_completed"
    /\ tasks[i].state = "running"
    /\ \E success \in BOOLEAN, links_found \in {0, 2} :
          /\ success \/ links_found = 0
          /\ tasks' = [tasks EXCEPT ![i].state = "done",
                                    ![i].result = process_file_result(batchFiles[i], tasks[i].dir.str,
                                                                      success, links_found)]
    /\ UNCHANGED <<batchFiles, maxWorkers, batchResults, batchPc, batchOut>>
    /\ UNCHANGED <<firstVars, encVars, pdfVars, extVars, thirdVars>>
\* the main thread, one turn of the loop over as_completed
collect_successes(results, r) == IF r.success THEN Append(results, r) ELSE results
collect(results, r) == Append(results, r)
AsCompleted(i) ==
    /\ batchPc = "as_completed"
    /\ tasks[i].state = "done"
    /\ tasks' = [tasks EXCEPT ![i].state = "collected"]
    /\ batchResults' = collect(batchResults, tasks[i].result)
    /\ UNCHANGED <<batchFiles, maxWorkers, batchPc, batchOut>>
    /\ UNCHANGED <<firstVars, encVars, pdfVars, extVars, thirdVars>>
\* the main thread, one turn of the sequential loop: a whole process_file call
Sequential(i) ==
    /\ batchPc = "sequential"
    /\ tasks[i].state = "pending"
    /\ \A j \in 1..(i - 1) : tasks[j].state = "collected"
    /\ \E success \in BOOLEAN, links_found \in {0, 2} :
          /\ success \/ links_found = 0
          /\ tasks' = [tasks EXCEPT
                          ![i].state = "collected",
                          ![i].dir = PyStr(file_output_dir(batchFiles[i], batch_output_dir)),
                          ![i].result = process_file_result(
                                            batchFiles[i], file_output_dir(batchFiles[i], batch_output_dir),
                                            success, links_found)]
          /\ batchResults' = collect(batchResults,
                                     process_file_result(
                                         batchFiles[i], file_output_dir(batchFiles[i], batch_output_dir),
                                         success, links_found))
    /\ UNCHANGED <<batchFiles, maxWorkers, batchPc, batchOut>>
    /\ UNCHANGED <<firstVars, encVars, pdfVars, extVars, thirdVars>>

\* _create_summary_report: the counts and the table rows of batch_summary.md
_create_summary_report(results) ==
    [total_files      |-> Len(results),
     successful_files |-> Cardinality({k \in 1..Len(results) : results[k].success}),
     failed           |-> Len(results) - Cardinality({k \in 1..Len(results) : results[k].success}),
     rows |-> [k \in 1..Len(results) |->
                  [file_name |-> basename(results[k].input_file),
                   status    |-> IF results[k].success THEN "Success" ELSE "Failed",
                   links_found |-> results[k].links_found]]]
\* the end of process_directory: the report, and the dict returned
Report ==
    /\ batchPc \in {"as_completed", "sequential"}
    /\ \A i \in 1..Len(tasks) : tasks[i].state = "collected"
    /\ batchOut' = [files_processed |-> Len(batchResults), results |-> batchResults,
                    report |-> _create_summary_report(batchResults)]
    /\ batchPc' = "returned"
    /\ UNCHANGED <<batchFiles, maxWorkers, tasks, batchResults>>
    /\ UNCHANGED <<firstVars, encVars, pdfVars, extVars, thirdVars>>

BatchInit ==
    /\ \E listing \in Listings : batchFiles = get_files_to_process(listing)
    /\ maxWorkers \in 1..MaxWorkers
    /\ tasks = <<>>
    /\ batchResults = <<>>
    /\ batchPc = "start"
    /\ batchOut = None
    /\ FirstIdle /\ EncIdle /\ PdfIdle /\ ExtIdle /\ ThirdIdle
BatchNext ==
    \/ ProcessDirectory
    \/ \E i \in 1..Len(tasks) : WorkerStart(i)
    \/ \E i \in 1..Len(tasks) : WorkerFinish(i)
    \/ \E i \in 1..Len(tasks) : AsCompleted(i)
    \/ \E i \in 1..Len(tasks) : Sequential(i)
    \/ Report
SpecBatch == BatchInit /\ [][BatchNext]_vars

\* C17: while process_directory runs the files in pool threads, no two tasks
\* that have begun were given the same output directory.
C17_PrivateOutputDirs ==
    batchPc = "as_completed" =>
        \A i, j \in 1..Len(tasks) :
            (i # j /\ ~IsNone(tasks[i].dir) /\ ~IsNone(tasks[j].dir)) => tasks[i].dir # tasks[j].dir

\* C18: when process_directory returns, results holds exactly one result for
\* every file of files_to_process, the report's successful and failed counts
\* add up to the number of files, and every file whose task failed has a row
\* that says so.
C18_EveryFileAccounted ==
    batchPc = "returned" =>
        /\ batchOut.files_processed = Len(batchFiles)
        /\ \A i \in 1..Len(batchFiles) :
              Cardinality({k \in 1..Len(batchOut.results) :
                              batchOut.results[k].input_file = batchFiles[i]}) = 1
        /\ batchOut.report.total_files = Len(batchFiles)
        /\ batchOut.report.successful_files + batchOut.report.failed = batchOut.report.total_files
        /\ \A i \in 1..Len(tasks) :
              ~tasks[i].result.success =>
                  \E k \in 1..Len(batchOut.report.rows) :
                      /\ batchOut.report.rows[k].file_name = basename(batchFiles[i])
                      /\ batchOut.report.rows[k].status = "Failed"
\* a parallel batch of two files in which the task that finished first failed
\* and the other succeeded
C18_Witness ==
    /\ batchPc = "returned"
    /\ maxWorkers > 1
    /\ Len(batchFiles) = 2
    /\ batchOut.results[1].input_file = batchFiles[2]
    /\ ~batchOut.results[1].success
    /\ batchOut.results[2].success

(***************************************************************************)
(* SpecExt: the extractors applied to one document                         *)
(***************************************************************************)
MaxFrags == 4

\* a byte that is not valid UTF-8
BadByte == "xff"
http_colon == <<"h", "t", "t", "p", ":", "/", "/">>
Fragments == {http_colon \o <<"a">>, <<"b">>, <<" ">>, <<BadByte>>}
RECURSIVE Texts(_)
Texts(n) ==
    IF n = 0 THEN {<<>>}
    ELSE {t \o f : t \in Texts(n - 1), f \in Fragments \cup {<<>>}}
file_extensions == {".txt", ".json", ".pdf"}
Documents == [file_extension : file_extensions, readable : BOOLEAN, bytes : Texts(MaxFrags)]

\* the characters after "://" in url_pattern:
\* [a-zA-Z] | [0-9] | [$-_@.&+] | [!*\(\),]   ("$-_" is the range from $ to _)
url_class ==
    Range(LowerLetters) \cup Range(UpperLetters) \cup Range(Digits)
        \cup {"$", "%", "&", "'", "(", ")", "*", "+", ",", "-", ".", "/", ":", ";",
              "<", "=", ">", "?", "@", "[", "\\", "]", "^", "_", "!"}

\* the last index of the run of url_class characters that starts at i (i - 1: none)
RECURSIVE class_end(_, _)
class_end(text, i) ==
    IF i <= Len(text) /\ text[i] \in url_class THEN class_end(text, i + 1) ELSE i - 1

\* where the match of url_pattern that starts at i ends (0: no match at i)
match_from(text, i, k) ==
    IF k + 3 <= Len(text) /\ SubSeq(text, k, k + 2) = <<":", "/", "/">> /\ class_end(text, k + 3) >= k + 3
    THEN class_end(text, k + 3) ELSE 0
match_end(text, i) ==
    IF i + 3 > Len(text) \/ SubSeq(text, i, i + 3) # <<"h", "t", "t", "p">> THEN 0
    ELSE match_from(text, i, IF i + 4 <= Len(text) /\ text[i + 4] = "s" THEN i + 5 ELSE i + 4)

\* url_pattern.findall(text): the matches from left to right, not overlapping
RECURSIVE findall(_, _, _)
findall_step(text, i, e, acc) ==
    IF e = 0 THEN findall(text, i + 1, acc)
    ELSE findall(text, e + 1, acc \cup {SubSeq(text, i, e)})
findall(text, i, acc) ==
    IF i > Len(text) THEN acc ELSE findall_step(text, i, match_end(text, i), acc)
_find_urls(text) == findall(text, 1, {})

\* what a block of code did: returned a set of URLs, or raised
Returned(found) == [raised |-> FALSE, urls |-> found]
Raised == [raised |-> TRUE, urls |-> {}]

\* open(file_path, 'r', encoding='utf-8', errors='ignore') and file.read():
\* open raises for a file that cannot be read, and the bytes that do not
\* decode are left out of the text
decode_ignore(bytes) == SelectSeq(bytes, LAMBDA b : b # BadByte)
read_and_find(d) ==
    IF ~d.readable THEN Raised ELSE Returned(_find_urls(decode_ignore(d.bytes)))

\* except Exception as e: print(...); return set()
except_reraise(r) == r
except_return_set(r) == IF r.raised THEN Returned({}) ELSE r

\* TextExtractor.extract, and URLExtractor.extract_urls: the factory gives a
\* TextExtractor for every extension
TextExtractor_extract(d) == except_return_set(read_and_find(d))
extract_urls(d) == TextExtractor_extract(d)

\* LinkExtractor._extract_from_text
_extract_from_text(d) == except_return_set(read_and_find(d))
\* LinkExtractor._extract_from_json: the URLs of the raw text; none of Documents
\* is a JSON value, so json.loads raises and the inner handler keeps these URLs
_extract_from_json(d) == except_return_set(read_and_find(d))
\* LinkExtractor._extract_from_pdf: text extraction without PyPDF2; with it,
\* open raises or PdfReader rejects the file, as none of Documents is a PDF
_extract_from_pdf(d, PYPDF2_AVAILABLE) ==
    IF ~PYPDF2_AVAILABLE THEN _extract_from_text(d) ELSE except_return_set(Raised)
extract_from_file(d, PYPDF2_AVAILABLE) ==
    except_return_set(
        CASE d.file_extension = ".json" -> _extract_from_json(d)
          [] d.file_extension = ".pdf"  -> _extract_from_pdf(d, PYPDF2_AVAILABLE)
          [] OTHER                      -> _extract_from_text(d))

ExtractUrls ==
    /\ ~IsNone(doc)
    /\ extOp' = PyStr("extract_urls")
    /\ extOut' = extract_urls(doc)
    /\ UNCHANGED <<doc, firstVars, encVars, pdfVars, batchVars, thirdVars>>

ExtractFromFile ==
    /\ ~IsNone(doc)
    /\ \E PYPDF2_AVAILABLE \in BOOLEAN :
          /\ extOp' = [str |-> "extract_from_file", PYPDF2_AVAILABLE |-> PYPDF2_AVAILABLE]
          /\ extOut' = extract_from_file(doc, PYPDF2_AVAILABLE)
    /\ UNCHANGED <<doc, firstVars, encVars, pdfVars, batchVars, thirdVars>>

ExtInit ==
    /\ doc \in Documents
    /\ extOp = None
    /\ extOut = None
    /\ FirstIdle /\ EncIdle /\ PdfIdle /\ BatchIdle /\ ThirdIdle
ExtNext == ExtractUrls \/ ExtractFromFile
SpecExt == ExtInit /\ [][ExtNext]_vars

Undecodable(d) == BadByte \in Range(d.bytes)
\* text holds "http://" followed by a character of the URL class
HoldsUrl(text) ==
    \E i \in 1..Len(text) :
        /\ i + 7 <= Len(text)
        /\ SubSeq(text, i, i + 6) = http_colon
        /\ text[i + 7] \in url_class
PartOf(u, text) == \E i \in 1..Len(text) : i + Len(u) - 1 <= Len(text) /\ SubSeq(text, i, i + Len(u) - 1) = u
ReadAsText == extOp.str = "extract_urls" \/ doc.file_extension # ".pdf" \/ ~extOp.PYPDF2_AVAILABLE

MaxUrlLen == 45

three_dots == <<".", ".", ".">>
\* display_url as it would be if the cut were made at 40 characters
display_url_cut_at_40(url) ==
    IF Len(url) > 40 THEN SubSeq(url, 1, 40) \o three_dots ELSE url
\* if len(url) > 40: display_url = url[:37] + "..." else: display_url = url
display_url(url) ==
    IF Len(url) > 40 THEN SubSeq(url, 1, 37) \o three_dots ELSE url

\* URLs of every length up to MaxUrlLen whose characters differ from place to
\* place, so that the part of the URL a label shows can be told
LabelUrls ==
    {[i \in 1..n |-> Digits[((i + shift) % 10) + 1]] : n \in 0..MaxUrlLen, shift \in 0..2}

\* the title cell of one record: pdf.cell(70, 10, display_url, ...)
CreatePdfLabel ==
    /\ IsNone(labelOut)
    /\ labelOut' = PyStr(display_url(labelUrl.str))
    /\ UNCHANGED <<labelUrl, firstVars, laterVars, sideVars, dedupVars, appVars, sanVars, csvpVars>>

LabelInit ==
    /\ \E url \in LabelUrls : labelUrl = PyStr(url)
    /\ labelOut = None
    /\ FirstIdle /\ LaterIdle /\ SideIdle /\ DedupIdle /\ AppIdle /\ SanIdle /\ CsvpIdle
LabelNext == CreatePdfLabel
SpecLabel == LabelInit /\ [][LabelNext]_vars

\* C23: the label never exceeds 40 characters: a URL of at most 40 characters
\* is shown unchanged, a longer one as its first 37 characters and '...'.
C23_LabelAtMost40 ==
    ~IsNone(labelOut) =>
        /\ Len(labelOut.str) <= 40
        /\ Len(labelUrl.str) <= 40 => labelOut.str = labelUrl.str
        /\ Len(labelUrl.str) > 40 =>
              /\ Len(labelOut.str) = 40
              /\ \A i \in 1..37 : labelOut.str[i] = labelUrl.str[i]
              /\ \A i \in 38..40 : labelOut.str[i] = "."
C23_Witness ==
    /\ ~IsNone(labelOut)
    /\ Len(labelUrl.str) = 41
    /\ Len(labelOut.str) = 40

(***************************************************************************)
(* SpecDedup: URLProcessor.deduplicate_urls applied to one set of URLs     *)
(***************************************************************************)
MaxSet == 4

U4 == U1 \o <<"#", "f">>    \* http://ex.com/a#f
U5 == U1 \o <<"/">>         \* http://ex.com/a/
DedupUrls == {U1, U2, U3, U4, U5}

Deduplicate ==
    /\ IsNone(dedupOut)
    /\ dedupOut' = [list |-> deduplicate_urls(dedupIn.order)]
    /\ UNCHANGED <<dedupIn, firstVars, laterVars, labelVars, sideVars, appVars, sanVars, csvpVars>>

DedupInit ==
    /\ \E S \in SUBSET DedupUrls :
          /\ Cardinality(S) <= MaxSet
          /\ \E order \in Orders(S) : dedupIn = [order |-> order]
    /\ dedupOut = None
    /\ FirstIdle /\ LaterIdle /\ LabelIdle /\ SideIdle /\ AppIdle /\ SanIdle /\ CsvpIdle
DedupNext == Deduplicate
SpecDedup == DedupInit /\ [][DedupNext]_vars

\* the place of url in the order the set was iterated in
PlaceIn(order, url) == CHOOSE i \in 1..Len(order) : order[i] = url

\* C26: deduplicate_urls returns exactly one URL per normalized key of its
\* input: every returned URL is a member of the input, no two returned URLs
\* have the same key, every input URL's key is represented, and the URL kept
\* for a key is the first one with that key in the order of iteration.
C26_OnePerKeyFirstKept ==
    ~IsNone(dedupOut) =>
        LET order == dedupIn.order
            list  == dedupOut.list
        IN  /\ \A k \in 1..Len(list) : list[k] \in Range(order)
            /\ \A k, l \in 1..Len(list) :
                  normalize_url(list[k]) = normalize_url(list[l]) => k = l
            /\ \A i \in 1..Len(order) :
                  \E k \in 1..Len(list) : normalize_url(list[k]) = normalize_url(order[i])
            /\ \A k \in 1..Len(list), i \in 1..Len(order) :
                  normalize_url(order[i]) = normalize_url(list[k]) => PlaceIn(order, list[k]) <= i
\* http://ex.com/a#f comes before http://ex.com/a and is the one kept
C26_Witness ==
    /\ ~IsNone(dedupOut)
    /\ dedupIn.order = <<U3, U4, U1, U5>>
    /\ dedupOut.list = <<U3, U4, U5>>

(***************************************************************************)
(* SpecSan: link_extractor_qr_generator.py process_file, the loop that     *)
(* gives every extracted link its sidecar directory                        *)
(***************************************************************************)
MaxLinks == 3

\* path.strip('/')
RECURSIVE strip_slashes(_)
strip_slashes(path) ==
    IF path = <<>> THEN path
    ELSE IF path[1] = "/" THEN strip_slashes(Tail(path))
    ELSE IF path[Len(path)] = "/" THEN strip_slashes(SubSeq(path, 1, Len(path) - 1))
    ELSE path
\* path.replace('www.', ''): every occurrence, from left to right
RECURSIVE remove_www(_)
remove_www(path) ==
    IF path = <<>> THEN path
    ELSE IF StartsWith(path, www_dot) THEN remove_www(From(path, 5))
    ELSE <<path[1]>> \o remove_www(Tail(path))
\* re.sub(r'[<>:"/\\|?*]', '_', name)
invalid_chars == {"<", ">", ":", "\"", "/", "\\", "|", "?", "*"}
sub_invalid(name) == [i \in 1..Len(name) |-> IF name[i] \in invalid_chars THEN "_" ELSE name[i]]
\* name[:97] + "..." when len(name) > 100
truncate_name(name) == IF Len(name) > 100 THEN SubSeq(name, 1, 97) \o three_dots ELSE name
\* f"url_{uuid.uuid4().hex[:8]}" when the name is empty or '_'; fresh stands
\* for the value uuid4 gives this call
unique_if_generic(name, fresh) ==
    IF name = <<>> \/ name = <<"_">> THEN <<"u", "r", "l", "_">> \o IntToStr(fresh) ELSE name
sanitize_parsed(parsed_url, fresh) ==
    unique_if_generic(
        truncate_name(sub_invalid(parsed_url.netloc \o <<"_">> \o remove_www(strip_slashes(parsed_url.path)))),
        fresh)
sanitize_filename(url, fresh) == sanitize_parsed(urlparse(url), fresh)

\* the links of one file
S1 == s_http \o <<":", "/", "/", "e", "x", ".", "c", "o", "m", "/", "a">>          \* http://ex.com/a
S2 == s_https \o <<":", "/", "/", "e", "x", ".", "c", "o", "m", "/", "a">>         \* https://ex.com/a
S3 == S1 \o <<"?", "x">>                                                           \* http://ex.com/a?x
S4 == S1 \o <<"/", "b">>                                                           \* http://ex.com/a/b
S5 == S1 \o <<"_", "b">>                                                           \* http://ex.com/a_b
S6 == s_http \o <<":", "/", "/", "/">>                                             \* http:///
S7 == s_http \o <<":", "/", "/", "e", "x", ".", "c", "o", "m", "/", "b">>          \* http://ex.com/b
SanUrls == {S1, S2, S3, S4, S5, S6, S7}

\* one turn of the loop over links: the directory name, and generate_qr_code
\* writing qrcode.png, qrcode.bin and url.md into that directory
ProcessLink ==
    /\ ~IsNone(sanIn)
    /\ Len(sanOut.qr_data) < Len(sanIn.links)
    /\ LET url      == sanIn.links[Len(sanOut.qr_data) + 1]
           dir_name == sanitize_filename(url, Len(sanOut.qr_data))
       IN  sanOut' = [qr_data |-> Append(sanOut.qr_data, [url |-> url, directory |-> dir_name]),
                      disk    |-> [d \in DOMAIN sanOut.disk \cup {dir_name} |->
                                      IF d = dir_name THEN url ELSE sanOut.disk[d]]]
    /\ UNCHANGED <<sanIn, firstVars, laterVars, labelVars, sideVars, dedupVars, appVars, csvpVars>>

SanInit ==
    /\ \E S \in SUBSET SanUrls :
          /\ Cardinality(S) <= MaxLinks
          /\ \E order \in Orders(S) : sanIn = [links |-> order]
    /\ sanOut = [qr_data |-> <<>>, disk |-> <<>>]
    /\ FirstIdle /\ LaterIdle /\ LabelIdle /\ SideIdle /\ DedupIdle /\ AppIdle /\ CsvpIdle
SanNext == ProcessLink
SpecSan == SanInit /\ [][SanNext]_vars

\* C29: different URLs of one file get different sidecar directories, so the
\* files of every URL processed so far are still those written for it.
C29_DistinctDirectories ==
    ~IsNone(sanIn) =>
        /\ \A i, j \in 1..Len(sanOut.qr_data) :
              i # j => sanOut.qr_data[i].directory # sanOut.qr_data[j].directory
        /\ \A i \in 1..Len(sanOut.qr_data) :
              sanOut.disk[sanOut.qr_data[i].directory] = sanOut.qr_data[i].url

(***************************************************************************)
(* SpecCsvp: CSVProcessor (src/improved_qr_code_generator.py), add_urls    *)
(* and update_qr_data calls on one urls.csv                                *)
(***************************************************************************)
MaxAdds == 2

Exists(file) == ~IsNone(file)
\* add_urls: the URLs of the rows of the file, when it exists
existing_urls(file) ==
    IF Exists(file)
    THEN {DictReader(file.lines)[i][PyStr(h_url)].str : i \in 1..Len(DictReader(file.lines))}
    ELSE {}
\* the lines add_urls appends: the header when the file did not exist, then a
\* row per new URL with the timestamp and empty version and binary_data
appended_lines(file, new_urls, timestamp) ==
    (IF Exists(file) THEN file.lines ELSE <<writerow([j \in 1..4 |-> PyStr(fieldnames[j])])>>)
    \o [i \in 1..Len(new_urls) |->
           writerow(<<PyStr(new_urls[i]), PyStr(timestamp), PyStr(<<>>), PyStr(<<>>)>>)]
add_urls_new(order, tracked, new_urls) ==
    /\ csvpOp' = [name |-> "add_urls", urls |-> order, ret |-> new_urls]
    /\ csvpPre' = csvpFile
    /\ csvpClock' = csvpClock + 1
    /\ csvpFile' = [lines |-> appended_lines(csvpFile, new_urls, isoformat(csvpClock'))]
    /\ csvpUrls' = tracked \cup Range(new_urls)
add_urls_tracked(order, tracked) ==
    add_urls_new(order, tracked, SelectSeq(order, LAMBDA url : url \notin tracked))
\* order: the set urls in the order the list comprehension iterates it
add_urls(order) == add_urls_tracked(order, csvpUrls \cup existing_urls(csvpFile))

\* update_qr_data, the loop body as it would be without the test on row['url']
update_row_every(row, url, version, binary_data) ==
    [row EXCEPT ![PyStr(h_version)] = PyStr(IntToStr(version)),
                ![PyStr(h_binary_data)] = PyStr(binary_data)]
\* update_qr_data, the body of the loop over the rows read
update_row(row, url, version, binary_data) ==
    IF row[PyStr(h_url)] = PyStr(url)
    THEN [row EXCEPT ![PyStr(h_version)] = PyStr(IntToStr(version)),
                     ![PyStr(h_binary_data)] = PyStr(binary_data)]
    ELSE row
update_rows(rows, url, version, binary_data) ==
    [i \in 1..Len(rows) |-> update_row(rows[i], url, version, binary_data)]
update_qr_data(url, version, binary_data) ==
    /\ csvpOp' = [name |-> "update_qr_data", url |-> url, version |-> version,
                  binary_data |-> binary_data]
    /\ csvpPre' = csvpFile
    /\ csvpFile' = IF ~Exists(csvpFile) THEN csvpFile
                   ELSE [lines |-> DictWriter(fieldnames,
                                              update_rows(DictReader(csvpFile.lines),
                                                          url, version, binary_data))]
    /\ UNCHANGED <<csvpUrls, csvpClock>>

\* the URLs the calls are made with: one plain, one with a comma in it
CsvUrls == {U1, U3}
AddUrls ==
    /\ csvpClock < MaxAdds
    /\ \E S \in SUBSET CsvUrls : \E order \in Orders(S) : add_urls(order)
    /\ UNCHANGED <<firstVars, laterVars, labelVars, sideVars, dedupVars, appVars, sanVars>>
UpdateQrData ==
    /\ \E url \in CsvUrls, qr \in QRSamples : update_qr_data(url, qr.version, qr.qr_data)
    /\ UNCHANGED <<firstVars, laterVars, labelVars, sideVars, dedupVars, appVars, sanVars>>

CsvpInit ==
    /\ csvpFile = None
    /\ csvpUrls = {}
    /\ csvpClock = 0
    /\ csvpOp = None
    /\ csvpPre = None
    /\ FirstIdle /\ LaterIdle /\ LabelIdle /\ SideIdle /\ DedupIdle /\ AppIdle /\ SanIdle
CsvpNext == AddUrls \/ UpdateQrData
SpecCsvp == CsvpInit /\ [][CsvpNext]_vars

\* the rows of a file, none while it does not exist
StoredRows(file) == IF Exists(file) THEN DictReader(file.lines) ELSE <<>>

\* C30: update_qr_data(url, version, binary_data) changes only the version and
\* binary_data of the rows whose url is the argument: the number and order of
\* the rows, every row's url and timestamp and every other row are as before,
\* and when no row matches or the file does not exist the file is as before.
C30_UpdateFrame ==
    (~IsNone(csvpOp) /\ csvpOp.name = "update_qr_data") =>
        LET before == StoredRows(csvpPre)
            after  == StoredRows(csvpFile)
        IN  /\ Exists(csvpFile) <=> Exists(csvpPre)
            /\ Len(after) = Len(before)
            /\ \A i \in 1..Len(before) :
                  /\ after[i][PyStr(h_url)] = before[i][PyStr(h_url)]
                  /\ after[i][PyStr(h_timestamp)] = before[i][PyStr(h_timestamp)]
                  /\ IF before[i][PyStr(h_url)] = PyStr(csvpOp.url)
                     THEN /\ after[i][PyStr(h_version)] = PyStr(IntToStr(csvpOp.version))
                          /\ after[i][PyStr(h_binary_data)] = PyStr(csvpOp.binary_data)
                     ELSE after[i] = before[i]
            /\ (\A i \in 1..Len(before) : before[i][PyStr(h_url)] # PyStr(csvpOp.url))
                  => csvpFile = csvpPre
\* the row of http://ex.com/b,c is updated after a row that holds QR data
\* already
C30_Witness ==
    /\ ~IsNone(csvpOp) /\ csvpOp.name = "update_qr_data"
    /\ csvpOp.url = U3
    /\ Len(StoredRows(csvpFile)) = 2
    /\ StoredRows(csvpFile)[2][PyStr(h_url)] = PyStr(U3)
    /\ StoredRows(csvpFile)[2][PyStr(h_version)] # StoredRows(csvpPre)[2][PyStr(h_version)]
    /\ StoredRows(csvpFile)[1][PyStr(h_version)] # PyStr(<<>>)

(***************************************************************************)
(* SpecApp: improved_qr_code_generator.py process_file on a URLManager     *)
(* that the caller passes in, or on a new one                              *)
(***************************************************************************)
AppOther == <<mainVars, normVars, laterVars, labelVars, sideVars, dedupVars, sanVars, csvpVars>>

\* the caller's own calls on the url_manager before it is passed in
CallerAddUrl ==
    /\ appPc = "caller"
    /\ \E url \in URLs : add_url(url)
    /\ UNCHANGED <<appVars, AppOther>>
CallerMarkAsProcessed ==
    /\ appPc = "caller"
    /\ \E url \in URLs : mark_as_processed(url, generate(url).version, generate(url).binary_data)
    /\ UNCHANGED <<appVars, AppOther>>

\* process_file begins: links is what extract_from_file returned, in the
\* order the loop over the set iterates it
ExtractLinks ==
    /\ appPc = "caller"
    /\ \E S \in SUBSET URLs : \E links \in Orders(S) : appIn' = [links |-> links]
    /\ appPc' = "add_urls"
    /\ UNCHANGED <<regVars, appLoop, appOut, AppOther>>
\* for url in links: url_manager.add_url(url)
AppAddUrl ==
    /\ appPc = "add_urls"
    /\ appLoop.added < Len(appIn.links)
    /\ add_url(appIn.links[appLoop.added + 1])
    /\ appLoop' = [appLoop EXCEPT !.added = @ + 1]
    /\ UNCHANGED <<appIn, appPc, appOut, AppOther>>
\* unprocessed_urls = url_manager.get_unprocessed_urls()
AppGetUnprocessed ==
    /\ appPc = "add_urls"
    /\ appLoop.added = Len(appIn.links)
    /\ get_unprocessed_urls
    /\ appLoop' = [appLoop EXCEPT !.unprocessed_urls = ret']
    /\ appOut' = [processed   |-> {urls[i].url : i \in {j \in 1..Len(urls) : urls[j].processed}},
                  unprocessed |-> {urls[i].url : i \in {j \in 1..Len(urls) : ~urls[j].processed}}]
    /\ appPc' = "loop"
    /\ UNCHANGED <<appIn, AppOther>>
\* one turn of the loop over unprocessed_urls: generate_qr_code makes the
\* symbol, writes the files and calls mark_as_processed
generate_qr_code(url, made) ==
    /\ ~made.raised
    /\ mark_as_processed(url, made.version, made.binary_data)
    /\ appLoop' = [appLoop EXCEPT !.idx = @ + 1, !.generated = Append(@, url)]
AppGenerateQrCode ==
    /\ appPc = "loop"
    /\ appLoop.idx < Len(appLoop.unprocessed_urls)
    /\ generate_qr_code(appLoop.unprocessed_urls[appLoop.idx + 1].url,
                        generate(appLoop.unprocessed_urls[appLoop.idx + 1].url))
    /\ UNCHANGED <<appIn, appPc, appOut, AppOther>>
\* csv_path = url_manager.export_to_csv(file_output_dir)
AppExportToCsv ==
    /\ appPc = "loop"
    /\ appLoop.idx = Len(appLoop.unprocessed_urls)
    /\ export_to_csv
    /\ appPc' = "exported"
    /\ UNCHANGED <<appIn, appLoop, appOut, AppOther>>

AppInit ==
    /\ RegIdle
    /\ appIn = None
    /\ appPc = "caller"
    /\ appLoop = [added |-> 0, unprocessed_urls |-> <<>>, idx |-> 0, generated |-> <<>>]
    /\ appOut = None
    /\ MainIdle /\ NormIdle /\ LaterIdle /\ LabelIdle /\ SideIdle /\ DedupIdle /\ SanIdle /\ CsvpIdle
AppNext ==
    \/ CallerAddUrl
    \/ CallerMarkAsProcessed
    \/ ExtractLinks
    \/ AppAddUrl
    \/ AppGetUnprocessed
    \/ AppGenerateQrCode
    \/ AppExportToCsv
SpecApp == AppInit /\ [][AppNext]_vars

\* how often url was handed to generate_qr_code in the loop
TimesGenerated(url) ==
    Cardinality({k \in 1..Len(appLoop.generated) : appLoop.generated[k] = url})
LoopDone ==
    /\ appPc \in {"loop", "exported"}
    /\ appLoop.idx = Len(appLoop.unprocessed_urls)

\* C27: when process_file has completed its loop, every URL of the registry is
\* Processed, a QR code was generated exactly once for each URL that was
\* Unprocessed when the loop began, and none for a URL that was Processed then.
C27_AllProcessedOnce ==
    LoopDone =>
        /\ \A i \in 1..Len(urls) : urls[i].processed
        /\ SelectSeq(urls, LAMBDA metadata : ~metadata.processed) = <<>>
        /\ \A url \in appOut.unprocessed : TimesGenerated(url) = 1
        /\ \A url \in appOut.processed : TimesGenerated(url) = 0
        /\ Range(appLoop.generated) \subseteq appOut.unprocessed
\* the caller's url_manager held a Processed URL that is among the links, and
\* an Unprocessed one that is not, for which the loop generated a QR code
C27_Witness ==
    /\ appPc = "exported"
    /\ appOut.processed # {} /\ appOut.processed \subseteq Range(appIn.links)
    /\ \E url \in appOut.unprocessed : url \notin Range(appIn.links)
    /\ Len(appLoop.generated) >= 1

(***************************************************************************)
(* SpecSide: the binary sidecar file <name>.bin, as link_extractor_qr_     *)
(* generator.py, improved_qr_code_generator.py and generate-qr-code.py     *)
(* write it                                                                *)
(***************************************************************************)
\* a character outside ASCII and its two bytes in UTF-8
e_acute == "U+00E9"
utf8_e_acute == <<"xc3", "xa9">>
\* http://ex.com/é
U6 == <<"h","t","t","p",":","/","/","e","x",".","c","o","m","/", e_acute>>
SideUrls == {U1, U6}

\* str.encode('utf-8')
RECURSIVE encode(_)
encode(text) ==
    IF Len(text) = 0 THEN <<>>
    ELSE IF Len(text) = 1 THEN (IF text[1] = e_acute THEN utf8_e_acute ELSE text)
    ELSE encode(SubSeq(text, 1, Len(text) \div 2))
         \o encode(SubSeq(text, (Len(text) \div 2) + 1, Len(text)))

\* QRCode.modules_count after make
modules_count(version) == version * 4 + 17
\* QRCode.setup_position_probe_pattern: the dark modules of a probe whose
\* corner is at (0, 0); the ring around it is light
probe_dark(r, c) ==
    \/ r \in 0..6 /\ c \in {0, 6}
    \/ c \in 0..6 /\ r \in {0, 6}
    \/ r \in 2..4 /\ c \in 2..4
\* one module of QRCode.modules.  The three position probes are where the
\* library puts them.  The other modules, which the library computes from the
\* payload, its error-correction codewords and the mask, are represented by a
\* pattern fixed by the position and the payload's length.
module(version, data, r, c) ==
    IF r <= 7 /\ c <= 7 THEN probe_dark(r, c)
    ELSE IF r <= 7 /\ c >= modules_count(version) - 8
         THEN probe_dark(r, c - (modules_count(version) - 7))
    ELSE IF r >= modules_count(version) - 8 /\ c <= 7
         THEN probe_dark(r - (modules_count(version) - 7), c)
    ELSE (r + 2 * c + Len(data)) % 3 = 0
modules(version, data) ==
    [r \in 1..modules_count(version) |->
        [c \in 1..modules_count(version) |-> module(version, data, r - 1, c - 1)]]
\* QRCode.get_matrix: the modules with border rows and columns of light
\* modules around them
blank_rows(border, width) == [i \in 1..border |-> [c \in 1..width |-> FALSE]]
get_matrix_of(mods, border) ==
    IF border = 0 THEN mods
    ELSE blank_rows(border, Len(mods) + border * 2)
         \o [r \in 1..Len(mods) |->
                [i \in 1..border |-> FALSE] \o mods[r] \o [i \in 1..border |-> FALSE]]
         \o blank_rows(border, Len(mods) + border * 2)
get_matrix(qr, data) == get_matrix_of(modules(qr.version.int, data), qr.border)

\* for row in data: for cell in row: binary_data += "1" if cell else "0"
row_string(row) == [c \in 1..Len(row) |-> IF row[c] THEN "1" ELSE "0"]
RECURSIVE rows_from(_, _)
rows_from(data, r) ==
    IF r > Len(data) THEN <<>> ELSE row_string(data[r]) \o rows_from(data, r + 1)
_get_binary_data(data) == rows_from(data, 1)

s_Link    == <<"L","i","n","k",":"," ">>
s_Version == <<"V","e","r","s","i","o","n",":"," ">>
\* additional_info = f"Link: {url}\nVersion: {qr.version}\n"
additional_info_blank_line(url, version) ==
    s_Link \o url \o <<"\n">> \o s_Version \o IntToStr(version) \o <<"\n", "\n">>
additional_info(url, version) ==
    s_Link \o url \o <<"\n">> \o s_Version \o IntToStr(version) \o <<"\n">>
\* data_file_content = additional_info.encode('utf-8') + binary_data.encode('utf-8')
data_file_content(url, version, binary_data) ==
    encode(additional_info(url, version)) \o encode(binary_data)

\* qr = qrcode.QRCode(version=None, ...); qr.add_data(url); qr.make(fit=True):
\* the payload is the UTF-8 bytes of url
make_qr(url, error_correction, box_size, border) ==
    make(add_data(QRCode(None, error_correction, box_size, border),
                  optimal_data_chunks(encode(url))))
\* what a writer leaves behind for a symbol that was made
written(url, qr, binary_data) ==
    [written |-> TRUE, qr |-> qr, binary_data |-> binary_data,
     file |-> data_file_content(url, qr.version.int, binary_data)]
_save_binary_data(qr, url) == written(url, qr, _get_binary_data(get_matrix(qr, encode(url))))
not_written == [written |-> FALSE]

\* the generators' configurations: qr_error_correction and qr_border
SideConfigs == {[error_correction |-> "L", box_size |-> 10, border |-> 4],
                [error_correction |-> "H", box_size |-> 10, border |-> 0]}

SideOther == <<mainVars, normVars, laterVars, labelVars, dedupVars, appVars, sanVars, csvpVars>>

\* process_file of improved_qr_code_generator.py: url_manager.add_url(url)
SideAddUrl ==
    /\ \E url \in SideUrls : add_url(url)
    /\ UNCHANGED <<sideVars, SideOther>>
\* link_extractor_qr_generator.py QRCodeGenerator.generate_qr_code, from
\* qr.make on
generate_qr_code_made(url, made) ==
    /\ ~made.raised
    /\ sideOut' = _save_binary_data(made.qr, url)
SaveBinaryData ==
    /\ \E url \in SideUrls, self \in SideConfigs :
          /\ sideIn' = [url |-> url, self |-> self]
          /\ generate_qr_code_made(url,
                 make_qr(url, self.error_correction, self.box_size, self.border))
    /\ sideOp' = PyStr("link_extractor_qr_generator")
    /\ UNCHANGED <<regVars, SideOther>>
\* improved_qr_code_generator.py EnhancedQRGenerator.generate_qr_code, for a URL
\* of unprocessed_urls: the file is written, then mark_as_processed is called
\* with the same binary_data
EnhancedWrite(url, qr, binary_data) ==
    /\ sideOut' = written(url, qr, binary_data)
    /\ mark_as_processed(url, qr.version.int, binary_data)
EnhancedGenerate(url, made) ==
    /\ ~made.raised
    /\ EnhancedWrite(url, made.qr, _get_binary_data(get_matrix(made.qr, encode(url))))
EnhancedGenerateQrCode ==
    /\ \E url \in SideUrls, self \in SideConfigs :
          /\ HasKey(urls, url) /\ ~DictGet(urls, url).processed
          /\ sideIn' = [url |-> url, self |-> self]
          /\ EnhancedGenerate(url,
                 make_qr(url, self.error_correction, self.box_size, self.border))
    /\ sideOp' = PyStr("improved_qr_code_generator")
    /\ UNCHANGED SideOther
\* generate-qr-code.py generate_qr_code: ERROR_CORRECT_L, box_size 10, border 4;
\* an exception is printed and no file is written
ScriptGenerate(link, made) ==
    sideOut' = IF made.raised THEN not_written
               ELSE written(link, made.qr, _get_binary_data(get_matrix(made.qr, encode(link))))
ScriptGenerateQrCode ==
    /\ \E link \in SideUrls :
          /\ sideIn' = [url |-> link, self |-> default_config]
          /\ ScriptGenerate(link, make_qr(link, ERROR_CORRECT_L, default_config.box_size,
                                          default_config.border))
    /\ sideOp' = PyStr("generate-qr-code")
    /\ UNCHANGED <<regVars, SideOther>>

SideInit ==
    /\ RegIdle
    /\ sideIn = None /\ sideOp = None /\ sideOut = None
    /\ MainIdle /\ NormIdle /\ LaterIdle /\ LabelIdle /\ DedupIdle /\ AppIdle /\ SanIdle /\ CsvpIdle
SideNext ==
    \/ SideAddUrl
    \/ SaveBinaryData
    \/ EnhancedGenerateQrCode
    \/ ScriptGenerateQrCode
SpecSide == SideInit /\ [][SideNext]_vars

\* the file, read back
FileWritten == ~IsNone(sideOut) /\ sideOut.written
\* where the line that starts at from ends
LineEnd(bytes, from) == Find(bytes, "\n", from)
\* the module of the symbol at row r and column c of the matrix with its
\* border, both counted from 1
DarkAt(version, border, payload, r, c) ==
    /\ r - border \in 1..modules_count(version)
    /\ c - border \in 1..modules_count(version)
    /\ module(version, payload, r - border - 1, c - border - 1)
\* body is the row-major '0'/'1' string of the symbol of version with its
\* border, width modules wide
RowMajor(body, width, version, border, payload) ==
    /\ Len(body) = width * width
    /\ \A r, c \in 1..width :
          body[(r - 1) * width + c] = (IF DarkAt(version, border, payload, r, c) THEN "1" ELSE "0")
\* the two header lines end at end1 and end2; what follows is the module string
LayoutLines(file, end1, end2, url, qr, payload) ==
    /\ end1 > 0 /\ end2 > 0
    /\ Slice(file, 1, end1 - 1) = encode(s_Link \o url)
    /\ Slice(file, end1 + 1, end2 - 1) = s_Version \o IntToStr(qr.version.int)
    /\ qr.version.int = Min(HoldingVersions(qr.error_correction, optimal_data_chunks(payload)))
    /\ RowMajor(From(file, end2 + 1), modules_count(qr.version.int) + 2 * qr.border,
                qr.version.int, qr.border, payload)
Layout(file, end1, url, qr) ==
    LayoutLines(file, end1, LineEnd(file, end1 + 1), url, qr, encode(url))
\* what follows the two header lines
Body(file, end1) == From(file, LineEnd(file, end1 + 1) + 1)

\* C21: a sidecar file is the UTF-8 header 'Link: <url>\nVersion: <n>\n', n
\* being the version of the encoded symbol, immediately followed by the
\* row-major '0'/'1' string of the symbol's modules, and that string is the one
\* stored for the URL in the registry.
C21_SidecarLayout ==
    FileWritten =>
        /\ Layout(sideOut.file, LineEnd(sideOut.file, 1), sideIn.url, sideOut.qr)
        /\ sideOp.str = "improved_qr_code_generator" =>
              /\ DictGet(urls, sideIn.url).qr_data
                    = PyStr(Body(sideOut.file, LineEnd(sideOut.file, 1)))
              /\ DictGet(urls, sideIn.url).version = sideOut.qr.version
\* the improved generator wrote the file of the URL outside ASCII with a
\* symbol of a version above 1 and no border
C21_Witness ==
    /\ FileWritten
    /\ sideOp.str = "improved_qr_code_generator"
    /\ sideIn.url = U6
    /\ sideOut.qr.version.int > 1
    /\ sideOut.qr.border = 0
    /\ DictGet(urls, U6).processed

====
